---- MODULE Spec2Model ----
(***************************************************************************)
(* Task dispatch engine of the OMEGA backend: the capability matcher's     *)
(* dispatch loop, the agent runtimes' inbox consumers and the registry     *)
(* services, modelled over a Redis-streams log with consumer groups.       *)
(***************************************************************************)
EXTENDS Integers, Sequences, FiniteSets, TLC

\* ------------------------------------------------------------------ bounds
\* Number of messages ever appended to one stream.
MaxMsgs == 2
\* Granularity of the clock and the last instant modelled, in seconds.
Tick == 30
MaxTime == 390
MaxRejects == 3
MaxClock == 2

\* ------------------------------------------------------------- vocabulary
None == "None"
FALLBACK_AGENT == "fallback_agent"
AgentIds == {"a1", "a2"}
Caps == {"math_operations", "web_search"}

VARIABLES
    \* ---- capability matcher (agents/capability_matcher.py)
    registry,     \* self.registry, in insertion order: <<[aid, tool_proficiencies]>>
    toMatch,      \* stream MATCHER_STREAM_IN: sequence of payloads, id = index
    mDelivered,   \* last id delivered to the group "matcher-grp"
    mPending,     \* pending entries list of "matcher-grp"
    mAckCalls,    \* id -> number of XACK commands completed for it
    inbox,        \* winner -> entries xadd-ed to "<winner>.inbox"
    dispatch,     \* entries xadd-ed to MATCHER_STREAM_OUT
    mpc,          \* position of CapabilityMatcherAgent.run
    mCur,         \* _id of the message being processed (0: none)
    mEnv,         \* env, the validated envelope being processed
    mRaising,     \* an exception is propagating through the finally block
    mPubFailed,   \* ids for which a publish (xadd) raised
    \* ---- agent runtime (agents/base_agent.py, agents/dual_mode_base.py)
    runtime,          \* which consumer loop this worker embeds
    agentInbox,       \* the worker's inbox stream: sequence of payloads
    delivered,        \* last id delivered to the worker's consumer group
    pending,          \* pending entries list of the worker's consumer group
    ackCalls,         \* id -> number of XACK commands completed for it
    results,          \* entries xadd-ed to the event log (task.results / task.events)
    wpc,              \* position of the consumer loop
    wCur,             \* stream id of the message being processed (0: none)
    wEnv,             \* envelope / result envelope in hand
    handleCalls,      \* id -> number of handle_task invocations
    handlerRaised,    \* ids whose handle_task call raised
    pubFailed,        \* ids whose result xadd raised
    is_shutting_down, \* EnhancedBaseAgent.is_shutting_down
    \* ---- registry services (services/mcp_registry, services/agent_registry)
    service,           \* which registry service is running
    now,               \* time.time() / datetime.utcnow(), in seconds
    mcp_tools,         \* MongoDB collection mcp_tools: id -> document
    agents_collection, \* MongoDB collection agents: id -> document
    agent_hash,        \* Redis hashes "agent:<id>" with their expiry
    lastRemoval,       \* id -> how the id's document last left the store
    staleSince,        \* id -> when the sweep last set the document inactive
    resp,              \* the last HTTP response sent
    \* ---- worker lifecycle (core/base_entity.py, agents/base_agent.py,
    \*      core/registerable_dual_mode_agent.py, agents/capability_matcher/agent.py)
    entity,         \* which worker implementation is running
    lpc,            \* position of the worker in its lifespan
    logOpen,        \* the worker's Redis connection is open
    registered,     \* the registration request was answered 200
    registerCalls,  \* number of registration requests sent
    registryKnows,  \* the registry holds an entry for the worker
    hbTask,         \* position of the heartbeat task / thread
    hbRunning,      \* RegisterableDualModeAgent.running
    hbRejected,     \* consecutive heartbeats the registry answered 404
    consumerTask,   \* state of the inbox consumer task
    consumed,       \* number of inbox messages the consumer has processed
    shutdownLog,    \* what the shutdown sequence has done so far, in order
    handling,       \* the consumer is inside `await self.handle_task(...)`
    hbWhileHandling, \* a heartbeat was sent while a handler call was in progress
    \* ---- workflow planner (agents/workflow_planner.py)
    ppc,        \* position of WorkflowPlannerAgent.handle_task
    parent,     \* env, the envelope handle_task was called with
    plan,       \* tasks, the task list of the plan
    parallel_groups,  \* what identify_parallel_groups(tasks) returned
    critical_path,    \* what calculate_critical_path(tasks) returned
    \* ---- capability registry (core/agent_discovery.py)
    in_memory_registry, \* agent_id -> capabilities and last_updated
    clock,              \* time.time() of the capability registry
    matched,            \* the last call of match_capability and what it returned
    capability_score,   \* the last call of calculate_capability_score (matcher service)
    \* ---- TaskFactory (core/factories/task_factory.py, factories.py)
    factory,                \* which module's TaskFactory class this is
    AUTO_TUNING_ENABLED,    \* cls.AUTO_TUNING_ENABLED
    KEYWORD_WEIGHTS,        \* category -> weight, in ten-thousandths
    WORD_COUNT_THRESHOLDS,  \* cls.WORD_COUNT_THRESHOLDS["base"]: high, medium
    outcome_history,        \* len(cls.outcome_history)
    tunings,                \* analysis passes that produced recommendations
    analysed,               \* the last record_task_outcome ran an analysis pass
    estimate                \* diagnostics of the last estimate_reasoning_effort

matcherVars == <<registry, toMatch, mDelivered, mPending, mAckCalls, inbox,
                 dispatch, mpc, mCur, mEnv, mRaising, mPubFailed>>

runtimeVars == <<runtime, agentInbox, delivered, pending, ackCalls, results, wpc,
                 wCur, wEnv, handleCalls, handlerRaised, pubFailed,
                 is_shutting_down>>

registryVars == <<service, now, mcp_tools, agents_collection, agent_hash,
                  lastRemoval, staleSince, resp>>

lifecycleVars == <<entity, lpc, logOpen, registered, registerCalls,
                   registryKnows, hbTask, hbRunning, hbRejected, consumerTask,
                   consumed, shutdownLog, handling, hbWhileHandling>>

plannerVars == <<ppc, parent, plan, parallel_groups, critical_path>>

discoveryVars == <<in_memory_registry, clock, matched,
                  capability_score>>

factoryVars == <<factory, AUTO_TUNING_ENABLED, KEYWORD_WEIGHTS,
                 WORD_COUNT_THRESHOLDS, outcome_history, tunings, analysed,
                 estimate>>

vars == <<matcherVars, runtimeVars, registryVars, lifecycleVars, plannerVars,
          discoveryVars, factoryVars>>

\* --------------------------------------------------- capability matcher
MsgIds == 1..MaxMsgs
Winners == AgentIds \cup {FALLBACK_AGENT}

\* Payloads found on task.to_match: a serialized TaskEnvelope, or bytes that
\* TaskEnvelope.model_validate_json rejects.
Malformed == [valid |-> FALSE]
\* TaskHeader defaults: status NEW, last_event PLAN, history [].
Envelope(assigned, cands, req) ==
    [valid |-> TRUE, assigned_agent |-> assigned, candidate_agents |-> cands,
     required_capabilities |-> req, status |-> "new", last_event |-> "plan",
     history |-> <<>>]
\* An entry of header.history.
HistoryEntry(event, actor) == [event |-> event, timestamp |-> 0, actor |-> actor]
MatchPayloads ==
    {Malformed}
    \cup {Envelope(None, <<>>, r) : r \in {{}, {"math_operations"}}}
    \cup {[Envelope(None, <<>>, Caps) EXCEPT
              !.history = <<HistoryEntry("plan", "orchestrator")>>]}
    \cup {[Envelope("a1", <<"a1">>, {"math_operations"}) EXCEPT
              !.status = "in_progress",
              !.history = <<HistoryEntry("plan", "orchestrator")>>]}

\* Contents of the in-memory registry the matcher may have been given.
Registries ==
    { <<>>,
      <<[aid |-> "a1", tool_proficiencies |-> {"web_search"}],
        [aid |-> "a2", tool_proficiencies |-> Caps]>>,
      <<[aid |-> "a1", tool_proficiencies |-> {"math_operations"}],
        [aid |-> "a2", tool_proficiencies |-> {"math_operations"}]>>,
      <<[aid |-> FALLBACK_AGENT, tool_proficiencies |-> {}]>> }

\* scored: the registry entries with a non-empty overlap, in registry order.
RECURSIVE Scored(_, _)
Scored(reg, required) ==
    IF reg = <<>> THEN <<>>
    ELSE LET overlap == Cardinality(required \cap reg[1].tool_proficiencies)
             rest == Scored(Tail(reg), required)
         IN IF overlap > 0
            THEN <<[aid |-> reg[1].aid, overlap |-> overlap]>> \o rest
            ELSE rest

\* sort without reverse=True: smallest overlap first.
RECURSIVE InsertDesc_Ascending(_, _)
InsertDesc_Ascending(x, s) ==
    IF s = <<>> THEN <<x>>
    ELSE IF s[1].overlap < x.overlap
         THEN <<s[1]>> \o InsertDesc_Ascending(x, Tail(s))
    ELSE <<x>> \o s

\* scored.sort(key=overlap, reverse=True): a stable sort, equal overlaps keep
\* their registry order. x goes in front of the first smaller-or-equal key.
RECURSIVE InsertDesc(_, _)
InsertDesc(x, s) ==
    IF s = <<>> THEN <<x>>
    ELSE IF s[1].overlap > x.overlap THEN <<s[1]>> \o InsertDesc(x, Tail(s))
    ELSE <<x>> \o s

RECURSIVE SortDesc(_)
SortDesc(s) ==
    IF s = <<>> THEN <<>>
    ELSE InsertDesc(s[1], SortDesc(Tail(s)))

_select_agent(reg, required) ==
    LET scored == SortDesc(Scored(reg, required))
    IN [winner |-> IF scored # <<>> THEN scored[1].aid ELSE FALLBACK_AGENT,
        candidates |-> [i \in 1..Len(scored) |-> scored[i].aid]]

\* The guard dropped: every envelope is matched again.
AlreadyRouted_Dropped(env) == FALSE

\* `if env.header.assigned_agent:` -- the envelope is already routed.
AlreadyRouted(env) == env.assigned_agent # None

InitMatcher ==
    /\ registry \in Registries
    /\ toMatch = <<>>
    /\ mDelivered = 0
    /\ mPending = {}
    /\ mAckCalls = [i \in MsgIds |-> 0]
    /\ inbox = [w \in Winners |-> <<>>]
    /\ dispatch = <<>>
    /\ mpc = "read"
    /\ mCur = 0
    /\ mEnv = Malformed
    /\ mRaising = FALSE
    /\ mPubFailed = {}

\* The matcher process is not running.
IdleMatcher ==
    /\ registry = <<>>
    /\ toMatch = <<>>
    /\ mDelivered = 0
    /\ mPending = {}
    /\ mAckCalls = [i \in MsgIds |-> 0]
    /\ inbox = [w \in Winners |-> <<>>]
    /\ dispatch = <<>>
    /\ mpc = "dead"
    /\ mCur = 0
    /\ mEnv = Malformed
    /\ mRaising = FALSE
    /\ mPubFailed = {}

\* A producer (planner, orchestrator) appends a payload to task.to_match.
XAddToMatch ==
    /\ Len(toMatch) < MaxMsgs
    /\ \E p \in MatchPayloads : toMatch' = Append(toMatch, p)
    /\ UNCHANGED <<registry, mDelivered, mPending, mAckCalls, inbox, dispatch,
                   mpc, mCur, mEnv, mRaising, mPubFailed>>
    /\ UNCHANGED <<runtimeVars, registryVars, lifecycleVars, plannerVars,
                   discoveryVars, factoryVars>>

\* xreadgroup(streams={MATCHER_STREAM_IN: ">"}, count=1): the next entry never
\* delivered to the group; it enters the pending entries list.
MatcherRead ==
    /\ mpc = "read"
    /\ mDelivered < Len(toMatch)
    /\ mDelivered' = mDelivered + 1
    /\ mPending' = mPending \cup {mDelivered + 1}
    /\ mCur' = mDelivered + 1
    /\ mpc' = "validate"
    /\ mRaising' = FALSE
    /\ UNCHANGED <<registry, toMatch, mAckCalls, inbox, dispatch, mEnv, mPubFailed>>
    /\ UNCHANGED <<runtimeVars, registryVars, lifecycleVars, plannerVars,
                   discoveryVars, factoryVars>>

\* xreadgroup raises (log unreachable): it is outside any try, run() ends.
MatcherReadFail ==
    /\ mpc = "read"
    /\ mpc' = "dead"
    /\ UNCHANGED <<registry, toMatch, mDelivered, mPending, mAckCalls, inbox,
                   dispatch, mCur, mEnv, mRaising, mPubFailed>>
    /\ UNCHANGED <<runtimeVars, registryVars, lifecycleVars, plannerVars,
                   discoveryVars, factoryVars>>

\* Lines 49-56: validate; an already routed envelope goes to the xack of line
\* 51, any other gets candidate_agents and assigned_agent from _select_agent.
MatcherValidate ==
    /\ mpc = "validate"
    /\ LET p == toMatch[mCur] IN
       IF ~p.valid
       THEN /\ mRaising' = TRUE
            /\ mpc' = "finally_ack"
            /\ UNCHANGED mEnv
       ELSE IF AlreadyRouted(p)
       THEN /\ mEnv' = p
            /\ mpc' = "ack_routed"
            /\ UNCHANGED mRaising
       ELSE LET best == _select_agent(registry, p.required_capabilities) IN
            /\ mEnv' = [p EXCEPT !.candidate_agents = best.candidates,
                                 !.assigned_agent = best.winner]
            /\ mpc' = "xadd_inbox"
            /\ UNCHANGED mRaising
    /\ UNCHANGED <<registry, toMatch, mDelivered, mPending, mAckCalls, inbox,
                   dispatch, mCur, mPubFailed>>
    /\ UNCHANGED <<runtimeVars, registryVars, lifecycleVars, plannerVars,
                   discoveryVars, factoryVars>>

\* Line 51: xack of an already routed envelope, then `continue` (through the
\* finally block). The command may raise.
MatcherAckRouted ==
    /\ mpc = "ack_routed"
    /\ \/ /\ mPending' = mPending \ {mCur}
          /\ mAckCalls' = [mAckCalls EXCEPT ![mCur] = @ + 1]
          /\ UNCHANGED mRaising
       \/ /\ mRaising' = TRUE
          /\ UNCHANGED <<mPending, mAckCalls>>
    /\ mpc' = "finally_ack"
    /\ UNCHANGED <<registry, toMatch, mDelivered, inbox, dispatch, mCur, mEnv,
                   mPubFailed>>
    /\ UNCHANGED <<runtimeVars, registryVars, lifecycleVars, plannerVars,
                   discoveryVars, factoryVars>>

\* Lines 59-62: xadd to "<winner>.inbox"; may raise.
MatcherXAddInbox ==
    /\ mpc = "xadd_inbox"
    /\ \/ /\ inbox' = [inbox EXCEPT ![mEnv.assigned_agent] =
                          Append(@, [src |-> mCur, env |-> mEnv])]
          /\ mpc' = "xadd_audit"
          /\ UNCHANGED <<mRaising, mPubFailed>>
       \/ /\ mPubFailed' = mPubFailed \cup {mCur}
          /\ mRaising' = TRUE
          /\ mpc' = "finally_ack"
          /\ UNCHANGED inbox
    /\ UNCHANGED <<registry, toMatch, mDelivered, mPending, mAckCalls, dispatch,
                   mCur, mEnv>>
    /\ UNCHANGED <<runtimeVars, registryVars, lifecycleVars, plannerVars,
                   discoveryVars, factoryVars>>

\* Lines 64-66: audit copy to MATCHER_STREAM_OUT; may raise.
MatcherXAddAudit ==
    /\ mpc = "xadd_audit"
    /\ \/ /\ dispatch' = Append(dispatch, [src |-> mCur, env |-> mEnv])
          /\ UNCHANGED <<mRaising, mPubFailed>>
       \/ /\ mPubFailed' = mPubFailed \cup {mCur}
          /\ mRaising' = TRUE
          /\ UNCHANGED dispatch
    /\ mpc' = "finally_ack"
    /\ UNCHANGED <<registry, toMatch, mDelivered, mPending, mAckCalls, inbox,
                   mCur, mEnv>>
    /\ UNCHANGED <<runtimeVars, registryVars, lifecycleVars, plannerVars,
                   discoveryVars, factoryVars>>

\* Lines 67-68: `finally: xack`. Afterwards a propagating exception leaves the
\* for and the while loop (run() ends); otherwise the loop reads again.
MatcherFinallyAck ==
    /\ mpc = "finally_ack"
    /\ \/ /\ mPending' = mPending \ {mCur}
          /\ mAckCalls' = [mAckCalls EXCEPT ![mCur] = @ + 1]
          /\ mpc' = IF mRaising THEN "dead" ELSE "read"
       \/ /\ mpc' = "dead"
          /\ UNCHANGED <<mPending, mAckCalls>>
    /\ UNCHANGED <<registry, toMatch, mDelivered, inbox, dispatch, mCur, mEnv,
                   mRaising, mPubFailed>>
    /\ UNCHANGED <<runtimeVars, registryVars, lifecycleVars, plannerVars,
                   discoveryVars, factoryVars>>

\* ----------------------------------------------------- agent runtime
\* The two consumer loops of the repository; a worker embeds one of them.
ENHANCED == "EnhancedBaseAgent"
DUAL == "DualModeAgent"
Runtimes == {ENHANCED, DUAL}

\* Payloads found on a worker's inbox.
TaskEnv(status) == [valid |-> TRUE, status |-> status]
InboxPayloads == {Malformed, TaskEnv("new")}

\* header.status values a handler leaves on the envelope it returns.
HandlerResults == {"completed", "failed"}
\* header.status of the envelope object when the handler raises: untouched,
\* or already mutated in place before the exception.
HandlerLeftovers(env) == {env.status, "in_progress", "failed"}

\* streams={inbox: "0"}: the consumer's own pending entries are read again
\* before new ones.
XReadGroup_Pending(deliv, pend, len) ==
    IF pend # {} THEN CHOOSE m \in pend : \A n \in pend : m <= n
    ELSE IF deliv < len THEN deliv + 1
    ELSE 0

\* xreadgroup(group, consumer, {inbox: ">"}, count=1): the id of the next entry
\* never delivered to the group, 0 when there is none. Entries already in the
\* pending list are not delivered again.
XReadGroup(deliv, pend, len) ==
    IF deliv < len THEN deliv + 1 ELSE 0

InitRuntime ==
    /\ runtime \in Runtimes
    /\ agentInbox = <<>>
    /\ delivered = 0
    /\ pending = {}
    /\ ackCalls = [i \in MsgIds |-> 0]
    /\ results = <<>>
    /\ wpc = "read"
    /\ wCur = 0
    /\ wEnv = Malformed
    /\ handleCalls = [i \in MsgIds |-> 0]
    /\ handlerRaised = {}
    /\ pubFailed = {}
    /\ is_shutting_down = FALSE

\* No worker is running.
IdleRuntime ==
    /\ runtime = ENHANCED
    /\ agentInbox = <<>>
    /\ delivered = 0
    /\ pending = {}
    /\ ackCalls = [i \in MsgIds |-> 0]
    /\ results = <<>>
    /\ wpc = "stopped"
    /\ wCur = 0
    /\ wEnv = Malformed
    /\ handleCalls = [i \in MsgIds |-> 0]
    /\ handlerRaised = {}
    /\ pubFailed = {}
    /\ is_shutting_down = FALSE

\* The matcher (or any producer) appends a payload to the worker's inbox.
XAddInbox ==
    /\ Len(agentInbox) < MaxMsgs
    /\ \E p \in InboxPayloads : agentInbox' = Append(agentInbox, p)
    /\ UNCHANGED <<runtime, delivered, pending, ackCalls, results, wpc, wCur, wEnv,
                   handleCalls, handlerRaised, pubFailed, is_shutting_down>>
    /\ UNCHANGED <<matcherVars, registryVars, lifecycleVars, plannerVars,
                   discoveryVars, factoryVars>>

\* signal_handler (SIGTERM / SIGINT) of EnhancedBaseAgent.
SignalHandler ==
    /\ runtime = ENHANCED
    /\ ~is_shutting_down
    /\ is_shutting_down' = TRUE
    /\ UNCHANGED <<runtime, agentInbox, delivered, pending, ackCalls, results, wpc,
                   wCur, wEnv, handleCalls, handlerRaised, pubFailed>>
    /\ UNCHANGED <<matcherVars, registryVars, lifecycleVars, plannerVars,
                   discoveryVars, factoryVars>>

\* ---- EnhancedBaseAgent._redis_consumer (base_agent.py 204-265)
\* `while not self.is_shutting_down` is false: the loop ends.
EnhancedLoopExit ==
    /\ runtime = ENHANCED
    /\ wpc = "read"
    /\ is_shutting_down
    /\ wpc' = "stopped"
    /\ UNCHANGED <<runtime, agentInbox, delivered, pending, ackCalls, results, wCur,
                   wEnv, handleCalls, handlerRaised, pubFailed, is_shutting_down>>
    /\ UNCHANGED <<matcherVars, registryVars, lifecycleVars, plannerVars,
                   discoveryVars, factoryVars>>

\* Lines 220-231: xreadgroup returned one message.
EnhancedRead ==
    /\ runtime = ENHANCED
    /\ wpc = "read"
    /\ ~is_shutting_down
    /\ LET id == XReadGroup(delivered, pending, Len(agentInbox)) IN
       /\ id # 0
       /\ delivered' = IF id > delivered THEN id ELSE delivered
       /\ pending' = pending \cup {id}
       /\ wCur' = id
    /\ wpc' = "validate"
    /\ UNCHANGED <<runtime, agentInbox, ackCalls, results, wEnv, handleCalls,
                   handlerRaised, pubFailed, is_shutting_down>>
    /\ UNCHANGED <<matcherVars, registryVars, lifecycleVars, plannerVars,
                   discoveryVars, factoryVars>>

\* xreadgroup raises: caught at line 263, the loop sleeps 5 s.
EnhancedReadFail ==
    /\ runtime = ENHANCED
    /\ wpc = "read"
    /\ ~is_shutting_down
    /\ wpc' = "sleep"
    /\ UNCHANGED <<runtime, agentInbox, delivered, pending, ackCalls, results, wCur,
                   wEnv, handleCalls, handlerRaised, pubFailed, is_shutting_down>>
    /\ UNCHANGED <<matcherVars, registryVars, lifecycleVars, plannerVars,
                   discoveryVars, factoryVars>>

\* Line 232: TaskEnvelope.model_validate_json; a malformed payload raises into
\* the outer except (line 263).
EnhancedValidate ==
    /\ runtime = ENHANCED
    /\ wpc = "validate"
    /\ IF agentInbox[wCur].valid
       THEN /\ wEnv' = agentInbox[wCur]
            /\ wpc' = "handle"
       ELSE /\ wpc' = "sleep"
            /\ UNCHANGED wEnv
    /\ UNCHANGED <<runtime, agentInbox, delivered, pending, ackCalls, results, wCur,
                   handleCalls, handlerRaised, pubFailed, is_shutting_down>>
    /\ UNCHANGED <<matcherVars, registryVars, lifecycleVars, plannerVars,
                   discoveryVars, factoryVars>>

\* Lines 236-250: result = await self.handle_task(envelope); on an exception
\* result = envelope.
EnhancedHandle ==
    /\ runtime = ENHANCED
    /\ wpc = "handle"
    /\ handleCalls' = [handleCalls EXCEPT ![wCur] = @ + 1]
    /\ \/ /\ \E st \in HandlerResults : wEnv' = [wEnv EXCEPT !.status = st]
          /\ UNCHANGED handlerRaised
       \/ /\ \E st \in HandlerLeftovers(wEnv) : wEnv' = [wEnv EXCEPT !.status = st]
          /\ handlerRaised' = handlerRaised \cup {wCur}
    /\ wpc' = "xadd"
    /\ UNCHANGED <<runtime, agentInbox, delivered, pending, ackCalls, results, wCur,
                   pubFailed, is_shutting_down>>
    /\ UNCHANGED <<matcherVars, registryVars, lifecycleVars, plannerVars,
                   discoveryVars, factoryVars>>

\* Lines 253-256: xadd("task.results", result); a failure goes to line 263.
EnhancedXAdd ==
    /\ runtime = ENHANCED
    /\ wpc = "xadd"
    /\ \/ /\ results' = Append(results, [src |-> wCur, status |-> wEnv.status])
          /\ wpc' = "xack"
          /\ UNCHANGED pubFailed
       \/ /\ pubFailed' = pubFailed \cup {wCur}
          /\ wpc' = "sleep"
          /\ UNCHANGED results
    /\ UNCHANGED <<runtime, agentInbox, delivered, pending, ackCalls, wCur, wEnv,
                   handleCalls, handlerRaised, is_shutting_down>>
    /\ UNCHANGED <<matcherVars, registryVars, lifecycleVars, plannerVars,
                   discoveryVars, factoryVars>>

\* Line 259: xack; a failure goes to line 263.
EnhancedXAck ==
    /\ runtime = ENHANCED
    /\ wpc = "xack"
    /\ \/ /\ pending' = pending \ {wCur}
          /\ ackCalls' = [ackCalls EXCEPT ![wCur] = @ + 1]
          /\ wpc' = "read"
       \/ /\ wpc' = "sleep"
          /\ UNCHANGED <<pending, ackCalls>>
    /\ UNCHANGED <<runtime, agentInbox, delivered, results, wCur, wEnv, handleCalls,
                   handlerRaised, pubFailed, is_shutting_down>>
    /\ UNCHANGED <<matcherVars, registryVars, lifecycleVars, plannerVars,
                   discoveryVars, factoryVars>>

\* Line 265: await asyncio.sleep(5), then the while condition again.
EnhancedSleep ==
    /\ runtime = ENHANCED
    /\ wpc = "sleep"
    /\ wpc' = "read"
    /\ UNCHANGED <<runtime, agentInbox, delivered, pending, ackCalls, results, wCur,
                   wEnv, handleCalls, handlerRaised, pubFailed, is_shutting_down>>
    /\ UNCHANGED <<matcherVars, registryVars, lifecycleVars, plannerVars,
                   discoveryVars, factoryVars>>

\* ---- DualModeAgent._consume_stream (dual_mode_base.py 56-85)
\* Lines 66-77: xreadgroup returned one message.
DualRead ==
    /\ runtime = DUAL
    /\ wpc = "read"
    /\ LET id == XReadGroup(delivered, pending, Len(agentInbox)) IN
       /\ id # 0
       /\ delivered' = IF id > delivered THEN id ELSE delivered
       /\ pending' = pending \cup {id}
       /\ wCur' = id
    /\ wpc' = "validate"
    /\ UNCHANGED <<runtime, agentInbox, ackCalls, results, wEnv, handleCalls,
                   handlerRaised, pubFailed, is_shutting_down>>
    /\ UNCHANGED <<matcherVars, registryVars, lifecycleVars, plannerVars,
                   discoveryVars, factoryVars>>

\* xreadgroup raises outside the try: the consumer task ends.
DualReadFail ==
    /\ runtime = DUAL
    /\ wpc = "read"
    /\ wpc' = "dead"
    /\ UNCHANGED <<runtime, agentInbox, delivered, pending, ackCalls, results, wCur,
                   wEnv, handleCalls, handlerRaised, pubFailed, is_shutting_down>>
    /\ UNCHANGED <<matcherVars, registryVars, lifecycleVars, plannerVars,
                   discoveryVars, factoryVars>>

\* Line 79 with the malformed payload skipped before the try: the loop goes
\* back to xreadgroup without the xack of the finally block.
DualValidate_Unacked ==
    /\ runtime = DUAL
    /\ wpc = "validate"
    /\ IF agentInbox[wCur].valid
       THEN /\ wEnv' = agentInbox[wCur]
            /\ wpc' = "handle"
       ELSE /\ wpc' = "read"
            /\ UNCHANGED wEnv
    /\ UNCHANGED <<runtime, agentInbox, delivered, pending, ackCalls, results, wCur,
                   handleCalls, handlerRaised, pubFailed, is_shutting_down>>
    /\ UNCHANGED <<matcherVars, registryVars, lifecycleVars, plannerVars,
                   discoveryVars, factoryVars>>

\* Line 79: a malformed payload raises into `except Exception` (82-83), then
\* the finally block.
DualValidate ==
    /\ runtime = DUAL
    /\ wpc = "validate"
    /\ IF agentInbox[wCur].valid
       THEN /\ wEnv' = agentInbox[wCur]
            /\ wpc' = "handle"
       ELSE /\ wpc' = "finally_ack"
            /\ UNCHANGED wEnv
    /\ UNCHANGED <<runtime, agentInbox, delivered, pending, ackCalls, results, wCur,
                   handleCalls, handlerRaised, pubFailed, is_shutting_down>>
    /\ UNCHANGED <<matcherVars, registryVars, lifecycleVars, plannerVars,
                   discoveryVars, factoryVars>>

\* Line 80: result_env = await self.handle_task(env); an exception is printed
\* (82-83) and control goes to the finally block.
DualHandle ==
    /\ runtime = DUAL
    /\ wpc = "handle"
    /\ handleCalls' = [handleCalls EXCEPT ![wCur] = @ + 1]
    /\ \/ /\ \E st \in HandlerResults : wEnv' = [wEnv EXCEPT !.status = st]
          /\ wpc' = "publish"
          /\ UNCHANGED handlerRaised
       \/ /\ \E st \in HandlerLeftovers(wEnv) : wEnv' = [wEnv EXCEPT !.status = st]
          /\ handlerRaised' = handlerRaised \cup {wCur}
          /\ wpc' = "finally_ack"
    /\ UNCHANGED <<runtime, agentInbox, delivered, pending, ackCalls, results, wCur,
                   pubFailed, is_shutting_down>>
    /\ UNCHANGED <<matcherVars, registryVars, lifecycleVars, plannerVars,
                   discoveryVars, factoryVars>>

\* Line 81 / _publish_event: xadd(RESULT_STREAM, result_env); a failure is
\* printed (82-83) and control goes to the finally block.
DualPublish ==
    /\ runtime = DUAL
    /\ wpc = "publish"
    /\ \/ /\ results' = Append(results, [src |-> wCur, status |-> wEnv.status])
          /\ UNCHANGED pubFailed
       \/ /\ pubFailed' = pubFailed \cup {wCur}
          /\ UNCHANGED results
    /\ wpc' = "finally_ack"
    /\ UNCHANGED <<runtime, agentInbox, delivered, pending, ackCalls, wCur, wEnv,
                   handleCalls, handlerRaised, is_shutting_down>>
    /\ UNCHANGED <<matcherVars, registryVars, lifecycleVars, plannerVars,
                   discoveryVars, factoryVars>>

\* Lines 84-85: `finally: xack`; if the xack raises, the consumer task ends.
DualFinallyAck ==
    /\ runtime = DUAL
    /\ wpc = "finally_ack"
    /\ \/ /\ pending' = pending \ {wCur}
          /\ ackCalls' = [ackCalls EXCEPT ![wCur] = @ + 1]
          /\ wpc' = "read"
       \/ /\ wpc' = "dead"
          /\ UNCHANGED <<pending, ackCalls>>
    /\ UNCHANGED <<runtime, agentInbox, delivered, results, wCur, wEnv, handleCalls,
                   handlerRaised, pubFailed, is_shutting_down>>
    /\ UNCHANGED <<matcherVars, registryVars, lifecycleVars, plannerVars,
                   discoveryVars, factoryVars>>

\* -------------------------------------------------- registry services
MCP_REGISTRY == "mcp_registry"
AGENT_REGISTRY == "agent_registry"
Services == {MCP_REGISTRY, AGENT_REGISTRY}
RegIds == {"r1", "r2"}

\* mcp_registry/service.py
HEARTBEAT_TIMEOUT == 60
VERY_OLD_AGE == 300
\* agent_registry/service.py: redis expire of "agent:<id>"
AGENT_KEY_TTL == 300

NoTime == 0 - 1
NoDoc == [present |-> FALSE, last_heartbeat |-> NoTime, status |-> "none"]
Doc(hb, st) == [present |-> TRUE, last_heartbeat |-> hb, status |-> st]
NoKey == [present |-> FALSE, last_heartbeat |-> NoTime, status |-> "none",
          expire_at |-> NoTime]
HashKey(hb, st, exp) == [present |-> TRUE, last_heartbeat |-> hb, status |-> st,
                         expire_at |-> exp]

Response(op, id, code, ids) ==
    [op |-> op, id |-> id, code |-> code, ids |-> ids, n |-> 1 - resp.n]

\* Values a client puts in the body of POST /agents/register (AgentInfo):
\* status (default "registered"; get_registration_payload sends "active") and
\* last_heartbeat (default None).
RegisterStatuses == {"registered", "active"}

\* collection.update_one(..., upsert=True): a missing document is created.
update_one_Upsert(coll, id, hb, st) ==
    [coll |-> [coll EXCEPT ![id] = Doc(hb, st)], matched_count |-> 1]

\* update_one with a $set of last_heartbeat alone: the status is left as it is.
update_one_KeepStatus(coll, id, hb, st) ==
    IF coll[id].present
    THEN [coll |-> [coll EXCEPT ![id] = Doc(hb, coll[id].status)],
          matched_count |-> 1]
    ELSE [coll |-> coll, matched_count |-> 0]

\* collection.update_one({"id": id}, {"$set": {last_heartbeat, status}}): only
\* an existing document is updated; matched_count tells whether there was one.
update_one(coll, id, hb, st) ==
    IF coll[id].present
    THEN [coll |-> [coll EXCEPT ![id] = Doc(hb, st)], matched_count |-> 1]
    ELSE [coll |-> coll, matched_count |-> 0]

\* The filter of discover_all_mcp_tools with active_only=True.
ActiveQuery(doc, t) ==
    doc.last_heartbeat > t - HEARTBEAT_TIMEOUT /\ doc.status = "active"

InitRegistry ==
    /\ service \in Services
    /\ now = 0
    /\ mcp_tools = [i \in RegIds |-> NoDoc]
    /\ agents_collection = [i \in RegIds |-> NoDoc]
    /\ agent_hash = [i \in RegIds |-> NoKey]
    /\ lastRemoval = [i \in RegIds |-> "never"]
    /\ staleSince = [i \in RegIds |-> NoTime]
    /\ resp = [op |-> "none", id |-> None, code |-> 0, ids |-> {}, n |-> 0]

\* No registry service is running.
IdleRegistry ==
    /\ service = MCP_REGISTRY
    /\ now = 0
    /\ mcp_tools = [i \in RegIds |-> NoDoc]
    /\ agents_collection = [i \in RegIds |-> NoDoc]
    /\ agent_hash = [i \in RegIds |-> NoKey]
    /\ lastRemoval = [i \in RegIds |-> "never"]
    /\ staleSince = [i \in RegIds |-> NoTime]
    /\ resp = [op |-> "none", id |-> None, code |-> 0, ids |-> {}, n |-> 0]

\* Time passes; Redis drops the keys whose expiry has been reached.
AdvanceTime ==
    /\ now + Tick <= MaxTime
    /\ now' = now + Tick
    /\ agent_hash' = [i \in RegIds |->
          IF agent_hash[i].present /\ agent_hash[i].expire_at <= now + Tick
          THEN NoKey ELSE agent_hash[i]]
    /\ UNCHANGED <<service, mcp_tools, agents_collection, lastRemoval,
                   staleSince, resp>>
    /\ UNCHANGED <<matcherVars, runtimeVars, lifecycleVars, plannerVars,
                   discoveryVars, factoryVars>>

\* ---- mcp_registry/service.py
\* POST /registry/mcp/register: replace_one(..., upsert=True) of a document
\* with last_heartbeat = time.time() and status "active".
register_mcp_tool ==
    /\ service = MCP_REGISTRY
    /\ \E id \in RegIds :
        /\ mcp_tools' = [mcp_tools EXCEPT ![id] = Doc(now, "active")]
        /\ lastRemoval' = [lastRemoval EXCEPT ![id] = "none"]
        /\ staleSince' = [staleSince EXCEPT ![id] = NoTime]
        /\ resp' = Response("register", id, 200, {})
    /\ UNCHANGED <<service, now, agents_collection, agent_hash>>
    /\ UNCHANGED <<matcherVars, runtimeVars, lifecycleVars, plannerVars,
                   discoveryVars, factoryVars>>

\* POST /registry/mcp/heartbeat.
update_mcp_tool_heartbeat ==
    /\ service = MCP_REGISTRY
    /\ \E id \in RegIds :
        LET result == update_one(mcp_tools, id, now, "active") IN
        /\ mcp_tools' = result.coll
        /\ resp' = Response("heartbeat", id,
                            IF result.matched_count = 0 THEN 404 ELSE 200, {})
    /\ UNCHANGED <<service, now, agents_collection, agent_hash, lastRemoval,
                   staleSince>>
    /\ UNCHANGED <<matcherVars, runtimeVars, lifecycleVars, plannerVars,
                   discoveryVars, factoryVars>>

\* GET /registry/mcp/discover?active_only=...
discover_all_mcp_tools ==
    /\ service = MCP_REGISTRY
    /\ \E active_only \in BOOLEAN :
        resp' = Response(IF active_only THEN "list" ELSE "list_all", None, 200,
                  {i \in RegIds : /\ mcp_tools[i].present
                                  /\ (active_only => ActiveQuery(mcp_tools[i], now))})
    /\ UNCHANGED <<service, now, mcp_tools, agents_collection, agent_hash,
                   lastRemoval, staleSince>>
    /\ UNCHANGED <<matcherVars, runtimeVars, lifecycleVars, plannerVars,
                   discoveryVars, factoryVars>>

\* DELETE /registry/mcp/unregister/{tool_id}.
unregister_mcp_tool ==
    /\ service = MCP_REGISTRY
    /\ \E id \in RegIds :
        IF mcp_tools[id].present
        THEN /\ mcp_tools' = [mcp_tools EXCEPT ![id] = NoDoc]
             /\ lastRemoval' = [lastRemoval EXCEPT ![id] = "unregistered"]
             /\ staleSince' = [staleSince EXCEPT ![id] = NoTime]
             /\ resp' = Response("unregister", id, 200, {})
        ELSE /\ resp' = Response("unregister", id, 404, {})
             /\ UNCHANGED <<mcp_tools, lastRemoval, staleSince>>
    /\ UNCHANGED <<service, now, agents_collection, agent_hash>>
    /\ UNCHANGED <<matcherVars, runtimeVars, lifecycleVars, plannerVars,
                   discoveryVars, factoryVars>>

\* One pass of cleanup_stale_tools: update_many marks the active documents past
\* the heartbeat timeout inactive, then delete_many removes the inactive ones
\* older than five minutes.
MarkedStale(coll, t) ==
    [i \in RegIds |->
        IF /\ coll[i].present
           /\ coll[i].last_heartbeat < t - HEARTBEAT_TIMEOUT
           /\ coll[i].status = "active"
        THEN [coll[i] EXCEPT !.status = "inactive"]
        ELSE coll[i]]

\* delete_many without the age filter: every inactive document is removed.
VeryOld_AnyInactive(doc, t) ==
    /\ doc.present
    /\ doc.status = "inactive"

VeryOld(doc, t) ==
    /\ doc.present
    /\ doc.last_heartbeat < t - VERY_OLD_AGE
    /\ doc.status = "inactive"

cleanup_stale_tools ==
    /\ service = MCP_REGISTRY
    /\ LET marked == MarkedStale(mcp_tools, now) IN
       /\ mcp_tools' = [i \in RegIds |->
                           IF VeryOld(marked[i], now) THEN NoDoc ELSE marked[i]]
       /\ lastRemoval' = [i \in RegIds |->
                           IF VeryOld(marked[i], now) THEN "purged"
                           ELSE lastRemoval[i]]
       /\ staleSince' = [i \in RegIds |->
                           IF VeryOld(marked[i], now) THEN NoTime
                           ELSE IF marked[i] # mcp_tools[i] THEN now
                           ELSE staleSince[i]]
    /\ UNCHANGED <<service, now, agents_collection, agent_hash, resp>>
    /\ UNCHANGED <<matcherVars, runtimeVars, lifecycleVars, plannerVars,
                   discoveryVars, factoryVars>>

\* ---- agent_registry/service.py
\* POST /agents/register: replace_one(..., upsert=True) with the request body
\* as the document, then the Redis hash with last_heartbeat = utcnow and a
\* 300 s expiry.
register_agent ==
    /\ service = AGENT_REGISTRY
    /\ \E id \in RegIds, st \in RegisterStatuses :
        /\ agents_collection' = [agents_collection EXCEPT ![id] = Doc(NoTime, st)]
        /\ agent_hash' = [agent_hash EXCEPT ![id] =
                             HashKey(now, st, now + AGENT_KEY_TTL)]
        /\ lastRemoval' = [lastRemoval EXCEPT ![id] = "none"]
        /\ resp' = Response("register", id, 200, {})
    /\ UNCHANGED <<service, now, mcp_tools, staleSince>>
    /\ UNCHANGED <<matcherVars, runtimeVars, lifecycleVars, plannerVars,
                   discoveryVars, factoryVars>>

\* POST /agents/heartbeat: update_one on MongoDB, 404 when nothing matched,
\* otherwise the Redis hash is refreshed too.
agent_heartbeat ==
    /\ service = AGENT_REGISTRY
    /\ \E id \in RegIds :
        LET result == update_one(agents_collection, id, now, "active") IN
        /\ agents_collection' = result.coll
        /\ IF result.matched_count = 0
           THEN /\ resp' = Response("heartbeat", id, 404, {})
                /\ UNCHANGED agent_hash
           ELSE /\ agent_hash' = [agent_hash EXCEPT ![id] =
                                    HashKey(now, "active", now + AGENT_KEY_TTL)]
                /\ resp' = Response("heartbeat", id, 200, {})
    /\ UNCHANGED <<service, now, mcp_tools, lastRemoval, staleSince>>
    /\ UNCHANGED <<matcherVars, runtimeVars, lifecycleVars, plannerVars,
                   discoveryVars, factoryVars>>

\* GET /agents: agents_collection.find({}).
list_agents ==
    /\ service = AGENT_REGISTRY
    /\ resp' = Response("list", None, 200,
                        {i \in RegIds : agents_collection[i].present})
    /\ UNCHANGED <<service, now, mcp_tools, agents_collection, agent_hash,
                   lastRemoval, staleSince>>
    /\ UNCHANGED <<matcherVars, runtimeVars, lifecycleVars, plannerVars,
                   discoveryVars, factoryVars>>

\* DELETE /agents/{agent_id}.
unregister_agent ==
    /\ service = AGENT_REGISTRY
    /\ \E id \in RegIds :
        IF agents_collection[id].present
        THEN /\ agents_collection' = [agents_collection EXCEPT ![id] = NoDoc]
             /\ agent_hash' = [agent_hash EXCEPT ![id] = NoKey]
             /\ lastRemoval' = [lastRemoval EXCEPT ![id] = "unregistered"]
             /\ resp' = Response("unregister", id, 200, {})
        ELSE /\ resp' = Response("unregister", id, 404, {})
             /\ UNCHANGED <<agents_collection, agent_hash, lastRemoval>>
    /\ UNCHANGED <<service, now, mcp_tools, staleSince>>
    /\ UNCHANGED <<matcherVars, runtimeVars, lifecycleVars, plannerVars,
                   discoveryVars, factoryVars>>

\* ------------------------------------------------------ worker lifecycle
\* Three implementations of registration, heartbeat and shutdown: the
\* OmegaEntity / EnhancedBaseAgent lifespan, RegisterableDualModeAgent (its
\* module is taken with the imports its code uses: requests and
\* contextlib.asynccontextmanager) and the capability matcher service.
REGISTERABLE == "RegisterableDualModeAgent"
MATCHER_APP == "capability_matcher/agent.py"
Entities == {ENHANCED, REGISTERABLE, MATCHER_APP}

\* Outcomes of a registration request: 200, an error status, no connection (0).
RegisterAnswers == {200, 503, 0}

\* Answer of the registry to POST .../heartbeat: 0 when it cannot be reached,
\* 404 when it holds no entry for the worker.
HeartbeatAnswer(reachable) ==
    IF ~reachable THEN 0 ELSE IF registryKnows THEN 200 ELSE 404

Rejections(code) ==
    IF code = 404 THEN (IF hbRejected < MaxRejects THEN hbRejected + 1
                        ELSE MaxRejects)
    ELSE IF code = 200 THEN 0
    ELSE hbRejected

InitLifecycle ==
    /\ entity \in Entities
    /\ lpc = "init"
    /\ logOpen = FALSE
    /\ registered = FALSE
    /\ registerCalls = 0
    /\ registryKnows = FALSE
    /\ hbTask = "none"
    /\ hbRunning = FALSE
    /\ hbRejected = 0
    /\ consumerTask = "none"
    /\ consumed = 0
    /\ shutdownLog = <<>>
    /\ handling = FALSE
    /\ hbWhileHandling = FALSE

\* No worker process is started.
IdleLifecycle ==
    /\ entity = ENHANCED
    /\ lpc = "off"
    /\ logOpen = FALSE
    /\ registered = FALSE
    /\ registerCalls = 0
    /\ registryKnows = FALSE
    /\ hbTask = "none"
    /\ hbRunning = FALSE
    /\ hbRejected = 0
    /\ consumerTask = "none"
    /\ consumed = 0
    /\ shutdownLog = <<>>
    /\ handling = FALSE
    /\ hbWhileHandling = FALSE

\* ---- EnhancedBaseAgent._lifespan, startup
\* Phase 1: the Redis connection is opened and pinged; a failure raises and
\* the finally block runs the shutdown sequence.
_setup_dependencies ==
    /\ entity = ENHANCED
    /\ lpc = "init"
    /\ \E ok \in BOOLEAN :
        /\ logOpen' = ok
        /\ lpc' = IF ok THEN "register" ELSE "finally"
    /\ UNCHANGED <<entity, registered, registerCalls, registryKnows, hbTask,
                   hbRunning, hbRejected, consumerTask, consumed, shutdownLog>>
    /\ UNCHANGED <<handling, hbWhileHandling>>
    /\ UNCHANGED <<matcherVars, runtimeVars, registryVars, plannerVars,
                   discoveryVars, factoryVars>>

\* Phases 2 and 3: OmegaEntity._register; on 200 the heartbeat and consumer
\* tasks are created; then the lifespan yields.
_register ==
    /\ entity = ENHANCED
    /\ lpc = "register"
    /\ registerCalls' = registerCalls + 1
    /\ \E code \in RegisterAnswers :
        /\ registered' = (code = 200)
        /\ registryKnows' = (registryKnows \/ code = 200)
        /\ hbTask' = IF code = 200 THEN "send" ELSE hbTask
        /\ consumerTask' = IF code = 200 THEN "running" ELSE consumerTask
    /\ lpc' = "running"
    /\ UNCHANGED <<entity, logOpen, hbRunning, hbRejected, consumed, shutdownLog>>
    /\ UNCHANGED <<handling, hbWhileHandling>>
    /\ UNCHANGED <<matcherVars, runtimeVars, registryVars, plannerVars,
                   discoveryVars, factoryVars>>

\* ---- EnhancedBaseAgent._lifespan, the finally block
\* self.is_shutting_down = True: the consumer loop takes no further message.
EnhancedShutdownFlag ==
    /\ entity = ENHANCED
    /\ lpc \in {"running", "finally"}
    /\ shutdownLog' = Append(shutdownLog, "stop_accepting")
    /\ lpc' = "cancel_tasks"
    /\ UNCHANGED <<entity, logOpen, registered, registerCalls, registryKnows,
                   hbTask, hbRunning, hbRejected, consumerTask, consumed>>
    /\ UNCHANGED <<handling, hbWhileHandling>>
    /\ UNCHANGED <<matcherVars, runtimeVars, registryVars, plannerVars,
                   discoveryVars, factoryVars>>

\* for task in startup_tasks: task.cancel(); await task.
EnhancedCancelTasks ==
    /\ entity = ENHANCED
    /\ lpc = "cancel_tasks"
    /\ hbTask' = IF hbTask = "none" THEN "none" ELSE "cancelled"
    /\ consumerTask' = IF consumerTask = "none" THEN "none" ELSE "cancelled"
    /\ shutdownLog' = shutdownLog
            \o (IF hbTask = "none" THEN <<>> ELSE <<"cancel_heartbeat">>)
            \o (IF consumerTask = "none" THEN <<>> ELSE <<"cancel_consumer">>)
    /\ lpc' = "cleanup"
    /\ UNCHANGED <<entity, logOpen, registered, registerCalls, registryKnows,
                   hbRunning, hbRejected, consumed>>
    /\ handling' = FALSE
    /\ UNCHANGED hbWhileHandling
    /\ UNCHANGED <<matcherVars, runtimeVars, registryVars, plannerVars,
                   discoveryVars, factoryVars>>

\* await self.redis.close().
_cleanup_dependencies ==
    /\ entity = ENHANCED
    /\ lpc = "cleanup"
    /\ logOpen' = FALSE
    /\ shutdownLog' = IF logOpen THEN Append(shutdownLog, "close_log")
                      ELSE shutdownLog
    /\ lpc' = "unregister"
    /\ UNCHANGED <<entity, registered, registerCalls, registryKnows, hbTask,
                   hbRunning, hbRejected, consumerTask, consumed>>
    /\ UNCHANGED <<handling, hbWhileHandling>>
    /\ UNCHANGED <<matcherVars, runtimeVars, registryVars, plannerVars,
                   discoveryVars, factoryVars>>

\* OmegaEntity._unregister: its body is `pass`; no request is sent.
_unregister ==
    /\ entity = ENHANCED
    /\ lpc = "unregister"
    /\ lpc' = "aclose"
    /\ UNCHANGED <<entity, logOpen, registered, registerCalls, registryKnows,
                   hbTask, hbRunning, hbRejected, consumerTask, consumed,
                   shutdownLog>>
    /\ UNCHANGED <<handling, hbWhileHandling>>
    /\ UNCHANGED <<matcherVars, runtimeVars, registryVars, plannerVars,
                   discoveryVars, factoryVars>>

\* await self.http_client.aclose().
EnhancedAclose ==
    /\ entity = ENHANCED
    /\ lpc = "aclose"
    /\ shutdownLog' = Append(shutdownLog, "close_http")
    /\ lpc' = "stopped"
    /\ UNCHANGED <<entity, logOpen, registered, registerCalls, registryKnows,
                   hbTask, hbRunning, hbRejected, consumerTask, consumed>>
    /\ UNCHANGED <<handling, hbWhileHandling>>
    /\ UNCHANGED <<matcherVars, runtimeVars, registryVars, plannerVars,
                   discoveryVars, factoryVars>>

\* ---- RegisterableDualModeAgent._lifespan and run
\* DualModeAgent._lifespan: the Redis connection is pinged and the consumer
\* task is created, before any registration.
DualLifespan ==
    /\ entity = REGISTERABLE
    /\ lpc = "init"
    /\ logOpen' = TRUE
    /\ consumerTask' = "running"
    /\ lpc' = "register"
    /\ UNCHANGED <<entity, registered, registerCalls, registryKnows, hbTask,
                   hbRunning, hbRejected, consumed, shutdownLog>>
    /\ UNCHANGED <<handling, hbWhileHandling>>
    /\ UNCHANGED <<matcherVars, runtimeVars, registryVars, plannerVars,
                   discoveryVars, factoryVars>>

\* register_with_registry, and start_heartbeat_thread when it returned True.
register_with_registry ==
    /\ entity = REGISTERABLE
    /\ lpc = "register"
    /\ registerCalls' = registerCalls + 1
    /\ \E code \in RegisterAnswers :
        /\ registered' = (code = 200)
        /\ registryKnows' = (registryKnows \/ code = 200)
        /\ hbRunning' = (code = 200)
        /\ hbTask' = IF code = 200 THEN "send" ELSE hbTask
    /\ lpc' = "running"
    /\ UNCHANGED <<entity, logOpen, hbRejected, consumerTask, consumed,
                   shutdownLog>>
    /\ UNCHANGED <<handling, hbWhileHandling>>
    /\ UNCHANGED <<matcherVars, runtimeVars, registryVars, plannerVars,
                   discoveryVars, factoryVars>>

\* stop_heartbeat_thread: running = False, join(timeout=1); called after the
\* yield of _lifespan and once more in the finally block of run. The thread
\* itself ends the next time it tests self.running.
stop_heartbeat_thread ==
    /\ entity = REGISTERABLE
    /\ lpc \in {"running", "run_finally"}
    /\ hbRunning' = FALSE
    /\ shutdownLog' = IF lpc = "running" /\ hbTask # "none"
                      THEN Append(shutdownLog, "cancel_heartbeat")
                      ELSE shutdownLog
    /\ lpc' = IF lpc = "running" THEN "unregister" ELSE "run_unregister"
    /\ UNCHANGED <<entity, logOpen, registered, registerCalls, registryKnows,
                   hbTask, hbRejected, consumerTask, consumed>>
    /\ UNCHANGED <<handling, hbWhileHandling>>
    /\ UNCHANGED <<matcherVars, runtimeVars, registryVars, plannerVars,
                   discoveryVars, factoryVars>>

\* unregister: DELETE /registry/unregister/<id>; any answer is only printed.
unregister ==
    /\ entity = REGISTERABLE
    /\ lpc \in {"unregister", "run_unregister"}
    /\ \E reachable \in BOOLEAN :
        registryKnows' = (registryKnows /\ ~reachable)
    /\ shutdownLog' = Append(shutdownLog, "deregister")
    /\ lpc' = IF lpc = "unregister" THEN "run_finally" ELSE "stopped"
    /\ UNCHANGED <<entity, logOpen, registered, registerCalls, hbTask,
                   hbRunning, hbRejected, consumerTask, consumed>>
    /\ UNCHANGED <<handling, hbWhileHandling>>
    /\ UNCHANGED <<matcherVars, runtimeVars, registryVars, plannerVars,
                   discoveryVars, factoryVars>>

\* ---- agents/capability_matcher/agent.py: lifespan
\* Startup: register_with_registry sets the global `registered` on 200; the
\* heartbeat task is created whatever the answer.
lifespan_startup ==
    /\ entity = MATCHER_APP
    /\ lpc = "init"
    /\ registerCalls' = registerCalls + 1
    /\ \E code \in RegisterAnswers :
        /\ registered' = (code = 200)
        /\ registryKnows' = (registryKnows \/ code = 200)
    /\ hbTask' = "send"
    /\ lpc' = "running"
    /\ UNCHANGED <<entity, logOpen, hbRunning, hbRejected, consumerTask,
                   consumed, shutdownLog>>
    /\ UNCHANGED <<handling, hbWhileHandling>>
    /\ UNCHANGED <<matcherVars, runtimeVars, registryVars, plannerVars,
                   discoveryVars, factoryVars>>

\* Shutdown: heartbeat_task.cancel(); await heartbeat_task.
lifespan_shutdown ==
    /\ entity = MATCHER_APP
    /\ lpc = "running"
    /\ hbTask' = "cancelled"
    /\ shutdownLog' = Append(shutdownLog, "cancel_heartbeat")
    /\ lpc' = "stopped"
    /\ UNCHANGED <<entity, logOpen, registered, registerCalls, registryKnows,
                   hbRunning, hbRejected, consumerTask, consumed>>
    /\ UNCHANGED <<handling, hbWhileHandling>>
    /\ UNCHANGED <<matcherVars, runtimeVars, registryVars, plannerVars,
                   discoveryVars, factoryVars>>

\* ---- the heartbeat loops
\* The heartbeat is sent from the consumer loop, between two messages.
HeartbeatDue_Inline == hbTask = "send" /\ ~handling

\* The heartbeat loop is a task (a thread in RegisterableDualModeAgent) of
\* its own: its next send waits for its own sleep only. Handlers are taken
\* to be coroutines that await what they wait for.
HeartbeatDue == hbTask = "send"

\* OmegaEntity._heartbeat_loop: the request is sent and its answer dropped;
\* only a connection error is caught (and printed).
_heartbeat_loop ==
    /\ entity = ENHANCED
    /\ HeartbeatDue
    /\ \E reachable \in BOOLEAN :
        hbRejected' = Rejections(HeartbeatAnswer(reachable))
    /\ hbTask' = "sleep"
    /\ UNCHANGED <<entity, lpc, logOpen, registered, registerCalls,
                   registryKnows, hbRunning, consumerTask, consumed, shutdownLog>>
    /\ hbWhileHandling' = (hbWhileHandling \/ handling)
    /\ UNCHANGED handling
    /\ UNCHANGED <<matcherVars, runtimeVars, registryVars, plannerVars,
                   discoveryVars, factoryVars>>

\* RegisterableDualModeAgent.send_heartbeat: a status other than 200 and any
\* exception are printed.
send_heartbeat ==
    /\ entity = REGISTERABLE
    /\ HeartbeatDue
    /\ \E reachable \in BOOLEAN :
        hbRejected' = Rejections(HeartbeatAnswer(reachable))
    /\ hbTask' = "sleep"
    /\ UNCHANGED <<entity, lpc, logOpen, registered, registerCalls,
                   registryKnows, hbRunning, consumerTask, consumed, shutdownLog>>
    /\ hbWhileHandling' = (hbWhileHandling \/ handling)
    /\ UNCHANGED handling
    /\ UNCHANGED <<matcherVars, runtimeVars, registryVars, plannerVars,
                   discoveryVars, factoryVars>>

\* capability_matcher/agent.py send_heartbeat: nothing is sent unless
\* `registered`; every answer and every exception is printed.
matcher_send_heartbeat ==
    /\ entity = MATCHER_APP
    /\ HeartbeatDue
    /\ IF registered
       THEN \E reachable \in BOOLEAN :
               hbRejected' = Rejections(HeartbeatAnswer(reachable))
       ELSE UNCHANGED hbRejected
    /\ hbTask' = "sleep"
    /\ UNCHANGED <<entity, lpc, logOpen, registered, registerCalls,
                   registryKnows, hbRunning, consumerTask, consumed, shutdownLog>>
    /\ hbWhileHandling' = (hbWhileHandling \/ handling)
    /\ UNCHANGED handling
    /\ UNCHANGED <<matcherVars, runtimeVars, registryVars, plannerVars,
                   discoveryVars, factoryVars>>

\* asyncio.sleep / time.sleep of the heartbeat interval; the thread of
\* RegisterableDualModeAgent then tests self.running.
HeartbeatSleep ==
    /\ hbTask = "sleep"
    /\ hbTask' = IF entity = REGISTERABLE /\ ~hbRunning THEN "exited" ELSE "send"
    /\ UNCHANGED <<entity, lpc, logOpen, registered, registerCalls,
                   registryKnows, hbRunning, hbRejected, consumerTask, consumed,
                   shutdownLog>>
    /\ UNCHANGED <<handling, hbWhileHandling>>
    /\ UNCHANGED <<matcherVars, runtimeVars, registryVars, plannerVars,
                   discoveryVars, factoryVars>>

\* ---- environment
\* The consumer task takes one more inbox message (the loop itself is modelled
\* step by step in the agent runtime section). The loop of EnhancedBaseAgent
\* tests is_shutting_down before every read.
ConsumeMessage ==
    /\ consumerTask = "running"
    /\ entity = ENHANCED => lpc = "running"
    /\ logOpen
    /\ consumed < MaxMsgs
    /\ ~handling
    /\ consumed' = consumed + 1
    /\ UNCHANGED <<entity, lpc, logOpen, registered, registerCalls,
                   registryKnows, hbTask, hbRunning, hbRejected, consumerTask,
                   shutdownLog>>
    /\ handling' = TRUE
    /\ UNCHANGED hbWhileHandling
    /\ UNCHANGED <<matcherVars, runtimeVars, registryVars, plannerVars,
                   discoveryVars, factoryVars>>

\* The handler call returns or raises after any time: the consumer goes on
\* to publish and acknowledge.
HandlerReturns ==
    /\ handling
    /\ handling' = FALSE
    /\ UNCHANGED <<entity, lpc, logOpen, registered, registerCalls,
                   registryKnows, hbTask, hbRunning, hbRejected, consumerTask,
                   consumed, shutdownLog, hbWhileHandling>>
    /\ UNCHANGED <<matcherVars, runtimeVars, registryVars, plannerVars,
                   discoveryVars, factoryVars>>

\* The registry service restarts without its entries.
RegistryRestart ==
    /\ registryKnows
    /\ registryKnows' = FALSE
    /\ UNCHANGED <<entity, lpc, logOpen, registered, registerCalls, hbTask,
                   hbRunning, hbRejected, consumerTask, consumed, shutdownLog>>
    /\ UNCHANGED <<handling, hbWhileHandling>>
    /\ UNCHANGED <<matcherVars, runtimeVars, registryVars, plannerVars,
                   discoveryVars, factoryVars>>

\* The elements of a list.
Elems(seq) == {seq[i] : i \in 1..Len(seq)}

\* ------------------------------------------------- core/utils/task_utils
\* A task dict of a plan: id, dependencies (each with task_id and
\* is_blocking), parallelizable, expected_duration.
Task(id, dependencies, parallelizable, expected_duration) ==
    [id |-> id, dependencies |-> dependencies,
     parallelizable |-> parallelizable,
     expected_duration |-> expected_duration]
Dependency(task_id, is_blocking) ==
    [task_id |-> task_id, is_blocking |-> is_blocking]

TaskIds == <<"A", "B", "C">>
\* expected_duration of each task, by id.
DurationMaps ==
    {[A |-> 1, B |-> 2, C |-> 3], [A |-> 3, B |-> 1, C |-> 1]}

\* The dependencies of a task on the ids in `on`, listed in the order of
\* TaskIds.
DependencyList(on, is_blocking) ==
    LET ids == SelectSeq(TaskIds, LAMBDA x : x \in on)
    IN [i \in 1..Len(ids) |-> Dependency(ids[i], is_blocking)]

\* Task lists a plan may hold: up to three tasks with distinct ids in any
\* list order, each depending on any set of the other tasks; the
\* dependencies of the third task are blocking or not.
TaskListsOf(n) ==
    {[k \in 1..n |->
         Task(TaskIds[order[k]],
              DependencyList({TaskIds[j] : j \in deps[order[k]]},
                             order[k] # 3 \/ blocking),
              par[order[k]],
              dur[TaskIds[order[k]]])] :
        order \in Permutations(1..n),
        deps \in {d \in [1..n -> SUBSET (1..n)] : \A i \in 1..n : i \notin d[i]},
        par \in [1..n -> BOOLEAN],
        dur \in DurationMaps,
        blocking \in BOOLEAN}
\* A plan of one task that lists itself as a blocking dependency.
SelfDependentLists ==
    {<<Task(TaskIds[1], DependencyList({TaskIds[1]}, TRUE), par,
            dur[TaskIds[1]])>> : par \in BOOLEAN, dur \in DurationMaps}
TaskLists ==
    UNION {TaskListsOf(n) : n \in 0..Len(TaskIds)} \cup SelfDependentLists

TaskById(tasks, id) == CHOOSE t \in Elems(tasks) : t.id = id
BlockingIds(t) ==
    {dep.task_id : dep \in {x \in Elems(t.dependencies) : x.is_blocking}}

\* Lines 6-10: graph[id] is the set of ids the task blocks on.
Graph(tasks) ==
    [id \in {t.id : t \in Elems(tasks)} |-> BlockingIds(TaskById(tasks, id))]

\* Lines 16-30. st holds visited, current_group and groups; a group is kept as
\* a set (list(current_group) has no defined order).
RECURSIVE visit(_, _, _)
RECURSIVE VisitDependents(_, _, _, _)
visit(tasks, task_id, st) ==
    IF task_id \in st.visited THEN st
    ELSE LET seen == st.visited \cup {task_id}
             placed ==
                 IF Graph(tasks)[task_id] \cap seen = {}
                 THEN [visited |-> seen,
                       current_group |-> st.current_group \cup {task_id},
                       groups |-> st.groups]
                 ELSE [visited |-> seen,
                       current_group |-> {task_id},
                       groups |-> IF st.current_group # {}
                                  THEN Append(st.groups, st.current_group)
                                  ELSE st.groups]
         IN VisitDependents(tasks, task_id, 1, placed)

\* Lines 27-30: the loop over the tasks that depend on task_id.
VisitDependents(tasks, task_id, k, st) ==
    IF k > Len(tasks) THEN st
    ELSE VisitDependents(tasks, task_id, k + 1,
            IF /\ tasks[k].id \notin st.visited
               /\ \E dep \in Elems(tasks[k].dependencies) : dep.task_id = task_id
            THEN visit(tasks, tasks[k].id, st)
            ELSE st)

\* Lines 32-34.
RECURSIVE VisitAll(_, _, _)
VisitAll(tasks, k, st) ==
    IF k > Len(tasks) THEN st
    ELSE VisitAll(tasks, k + 1, visit(tasks, tasks[k].id, st))

identify_parallel_groups(tasks) ==
    LET st == VisitAll(tasks, 1, [visited |-> {}, current_group |-> {},
                                  groups |-> <<>>])
    IN IF st.current_group # {} THEN Append(st.groups, st.current_group)
       ELSE st.groups

\* Lines 45-47, for one task from dependency j on: every blocking dependency
\* raises times[t.id] to times[dep] + duration when that is larger.
RECURSIVE TimesOfTask(_, _, _)
TimesOfTask(t, j, times) ==
    IF j > Len(t.dependencies) THEN times
    ELSE LET dep == t.dependencies[j]
             through == times[dep.task_id] + t.expected_duration
         IN TimesOfTask(t, j + 1,
                IF dep.is_blocking /\ through > times[t.id]
                THEN [times EXCEPT ![t.id] = through]
                ELSE times)

\* Lines 42-47: one pass over the tasks in list order.
RECURSIVE TimesFrom(_, _, _)
TimesFrom(tasks, k, times) ==
    IF k > Len(tasks) THEN times
    ELSE TimesFrom(tasks, k + 1, TimesOfTask(tasks[k], 1, times))
Times(tasks) ==
    TimesFrom(tasks, 1, [id \in {t.id : t \in Elems(tasks)} |-> 0])

\* Line 50: max(times.items(), key=...) is the first key, in list order,
\* with the largest time; None for no task.
LatestTask(tasks, times) ==
    IF tasks = <<>> THEN None
    ELSE LET k == CHOOSE i \in 1..Len(tasks) :
                    /\ \A j \in 1..Len(tasks) :
                           times[tasks[j].id] <= times[tasks[i].id]
                    /\ \A j \in 1..(i - 1) :
                           times[tasks[j].id] < times[tasks[i].id]
         IN tasks[k].id

\* Lines 53-59: the first blocking dependency of `current` with the largest
\* time (later ones replace it only when strictly larger); None without one.
RECURSIVE MaxDep(_, _, _, _, _)
MaxDep(deps, j, times, max_dep, max_time) ==
    IF j > Len(deps) THEN max_dep
    ELSE IF deps[j].is_blocking /\ times[deps[j].task_id] > max_time
    THEN MaxDep(deps, j + 1, times, deps[j].task_id, times[deps[j].task_id])
    ELSE MaxDep(deps, j + 1, times, max_dep, max_time)

\* reversed(critical_path), the identity.
Reversed_Kept(seq) == seq

\* reversed(critical_path)
Reversed(seq) == [i \in 1..Len(seq) |-> seq[Len(seq) + 1 - i]]

\* Lines 51-60: the walk from `current` back along the dependencies. A walk
\* that has appended every task and still has a current task is on a cycle:
\* the `while current` loop never ends.
RECURSIVE CriticalWalk(_, _, _, _)
CriticalWalk(tasks, times, current, walked) ==
    IF current = None THEN [path |-> walked, returns |-> TRUE]
    ELSE IF Len(walked) >= Len(tasks)
    THEN [path |-> walked, returns |-> FALSE]
    ELSE CriticalWalk(tasks, times,
            MaxDep(TaskById(tasks, current).dependencies, 1, times, None, 0 - 1),
            Append(walked, current))

\* calculate_critical_path(tasks): the returned list, or no return.
calculate_critical_path(tasks) ==
    LET times == Times(tasks)
        walk == CriticalWalk(tasks, times, LatestTask(tasks, times), <<>>)
    IN [path |-> Reversed(walk.path), returns |-> walk.returns]

\* ----------------------------------------------------- workflow planner
\* The envelope handle_task is called with; `error` stands for
\* env.task.payload["error"].
ParentEnv(status, history) ==
    [valid |-> TRUE, status |-> status, last_event |-> "plan",
     history |-> history, error |-> FALSE]
NoParent == [ParentEnv("none", <<>>) EXCEPT !.valid = FALSE]
PlannerInputs ==
    {ParentEnv(st, h) : st \in {"new", "in_progress"},
                        h \in {<<>>, <<HistoryEntry("plan", "orchestrator")>>}}

InitPlanner ==
    /\ ppc = "idle"
    /\ parent = NoParent
    /\ plan = <<>>
    /\ parallel_groups = <<>>
    /\ critical_path = <<>>

\* No planner is running.
IdlePlanner ==
    /\ ppc = "off"
    /\ parent = NoParent
    /\ plan = <<>>
    /\ parallel_groups = <<>>
    /\ critical_path = <<>>

\* handle_task is called with an envelope.
PlannerReceive ==
    /\ ppc = "idle"
    /\ \E env \in PlannerInputs : parent' = env
    /\ ppc' = "plan"
    /\ UNCHANGED <<plan, parallel_groups, critical_path>>
    /\ UNCHANGED <<matcherVars, runtimeVars, registryVars, lifecycleVars,
                   discoveryVars, factoryVars>>

\* Lines 25-46: prompt, model call and json.loads, any of which may raise;
\* then identify_parallel_groups(tasks) and calculate_critical_path(tasks),
\* which does not return for a task list with a dependency cycle.
PlannerPlan ==
    /\ ppc = "plan"
    /\ \/ \E tasks \in TaskLists :
            /\ plan' = tasks
            /\ parallel_groups' = identify_parallel_groups(tasks)
            /\ IF calculate_critical_path(tasks).returns
               THEN /\ critical_path' = calculate_critical_path(tasks).path
                    /\ ppc' = "emit"
               ELSE /\ ppc' = "hung"
                    /\ UNCHANGED critical_path
       \/ /\ ppc' = "except"
          /\ UNCHANGED <<plan, parallel_groups, critical_path>>
    /\ UNCHANGED parent
    /\ UNCHANGED <<matcherVars, runtimeVars, registryVars, lifecycleVars,
                   discoveryVars, factoryVars>>

\* Lines 49-63, the first iteration of the loop: the payload of the child's
\* TaskCore evaluates parallel_groups.get(task_dict["id"], None) (line 60).
\* parallel_groups is a list, a list has no attribute `get`, and the
\* AttributeError reaches the except block before the child envelope is built:
\* the xadd of line 78 is never reached.
PlannerEmit ==
    /\ ppc = "emit"
    /\ plan # <<>>
    /\ ppc' = "except"
    /\ UNCHANGED <<parent, plan, parallel_groups, critical_path>>
    /\ UNCHANGED <<matcherVars, runtimeVars, registryVars, lifecycleVars,
                   discoveryVars, factoryVars>>

\* Lines 80-83: the original envelope is returned COMPLETED.
PlannerReturn ==
    /\ ppc = "emit"
    /\ plan = <<>>
    /\ parent' = [parent EXCEPT !.last_event = "complete", !.status = "completed"]
    /\ ppc' = "done"
    /\ UNCHANGED <<plan, parallel_groups, critical_path>>
    /\ UNCHANGED <<matcherVars, runtimeVars, registryVars, lifecycleVars,
                   discoveryVars, factoryVars>>

\* An except block that only prints the error and returns the envelope as
\* the try block would have.
PlannerExcept_Completed ==
    /\ ppc = "except"
    /\ parent' = [parent EXCEPT !.status = "completed",
                                !.last_event = "complete"]
    /\ ppc' = "done"
    /\ UNCHANGED <<plan, parallel_groups, critical_path>>
    /\ UNCHANGED <<matcherVars, runtimeVars, registryVars, lifecycleVars,
                   discoveryVars, factoryVars>>

\* Lines 85-90: the except block returns the envelope FAILED.
PlannerExcept ==
    /\ ppc = "except"
    /\ parent' = [parent EXCEPT !.status = "failed", !.last_event = "fail",
                                !.error = TRUE]
    /\ ppc' = "done"
    /\ UNCHANGED <<plan, parallel_groups, critical_path>>
    /\ UNCHANGED <<matcherVars, runtimeVars, registryVars, lifecycleVars,
                   discoveryVars, factoryVars>>

\* --------------------------------------------------- capability registry
\* Strings are sequences of characters. Scores are in hundredths (1.0 is 100).
LowerChar(c) == IF c = "A" THEN "a" ELSE IF c = "B" THEN "b" ELSE c
\* str.lower()
Lower(str) == [i \in 1..Len(str) |-> LowerChar(str[i])]

\* str.strip(): leading and trailing whitespace removed.
RECURSIVE Strip(_)
Strip(str) ==
    IF str = <<>> THEN <<>>
    ELSE IF Head(str) = " " THEN Strip(Tail(str))
    ELSE IF str[Len(str)] = " " THEN Strip(SubSeq(str, 1, Len(str) - 1))
    ELSE str

\* `q in str` for Python strings.
Contains(q, str) ==
    \E k \in 0..(Len(str) - Len(q)) : \A i \in 1..Len(q) : str[k + i] = q[i]

\* AgentCapability(name, description, examples, tags).
AgentCapability(name, description, examples, tags) ==
    [name |-> name, description |-> description, examples |-> examples,
     tags |-> tags]
NoCapability == AgentCapability(<<>>, <<>>, <<>>, <<"-">>)

\* Capabilities agents declare.
CapPartial == AgentCapability(<<"a", "b">>, <<>>, <<>>, <<>>)
CapDescription == AgentCapability(<<"b">>, <<"x", " ", "a">>, <<>>, <<>>)
CapExample == AgentCapability(<<"B">>, <<>>, <<<<"b">>, <<"A", "x">>>>, <<>>)
CapTagged == AgentCapability(<<"x">>, <<>>, <<>>, <<<<"T">>, <<"u">>>>)
CapHalfTagged == AgentCapability(<<"x">>, <<>>, <<>>, <<<<"t">>>>)
\* Capabilities whose name is a query text, character for character.
NamedLikeQuery ==
    {AgentCapability(<<"a">>, <<>>, <<>>, <<>>),
     AgentCapability(<<" ", "a">>, <<>>, <<>>, <<>>)}

\* Capability lists an agent may register: a base list, or a base list plus
\* one capability named like a query.
BaseLists ==
    {<<CapPartial>>, <<CapDescription, CapHalfTagged>>,
     <<CapExample, CapTagged>>}
CapLists == BaseLists \cup {Append(l, c) : l \in BaseLists, c \in NamedLikeQuery}

\* Queries: a text (the query itself when it is a string, its "text" when it
\* is a dict) and the dict's "tags".
QueryTexts == {<<"a">>, <<"A">>, <<" ", "a">>, <<>>}
QueryTags == {<<>>, <<<<"T">>, <<"u">>>>}
MinScores == {60, 100}

\* _score_capability_match(capability, query_text, query_tags).
_score_capability_match(capability, text, tags) ==
    LET query_text == Strip(Lower(text))
        query_tags == [i \in 1..Len(tags) |-> Lower(tags[i])]
        Max(a, b) == IF a >= b THEN a ELSE b
        partial == IF Contains(query_text, Lower(capability.name)) THEN 80 ELSE 0
        described == IF Contains(query_text, Lower(capability.description))
                     THEN 60 ELSE 0
        example == IF \E i \in 1..Len(capability.examples) :
                         Contains(query_text, Lower(capability.examples[i]))
                   THEN 70 ELSE 0
        matching_tags == Elems(query_tags)
                           \cap {Lower(t) : t \in Elems(capability.tags)}
        tag_score == IF query_tags # <<>> /\ capability.tags # <<>>
                        /\ matching_tags # {}
                     THEN 50 + (Cardinality(matching_tags) * 40) \div Len(query_tags)
                     ELSE 0
    IN IF Lower(capability.name) = query_text THEN 100
       ELSE Max(Max(partial, described), Max(example, tag_score))

\* The loop of lines 96-103: the best score over the capabilities and the
\* first capability that reaches it (none while every score is 0).
RECURSIVE BestMatch(_, _, _, _)
BestMatch(capabilities, text, tags, best) ==
    IF capabilities = <<>> THEN best
    ELSE LET score == _score_capability_match(Head(capabilities), text, tags)
         IN BestMatch(Tail(capabilities), text, tags,
                      IF score > best.score
                      THEN [score |-> score, capability |-> Head(capabilities)]
                      ELSE best)

\* `if best_score > min_score`: an agent exactly at the threshold is left out.
MeetsThreshold_Strict(best_score, min_score) == best_score > min_score

\* Line 106: `if best_score >= min_score`.
MeetsThreshold(best_score, min_score) == best_score >= min_score

\* scored_agents before the sort, in the order the agents are iterated.
RECURSIVE ScoredAgents(_, _, _, _)
ScoredAgents(all_agents, text, tags, min_score) ==
    IF all_agents = <<>> THEN <<>>
    ELSE LET best == BestMatch(Head(all_agents).capabilities, text, tags,
                               [score |-> 0, capability |-> NoCapability])
             rest == ScoredAgents(Tail(all_agents), text, tags, min_score)
         IN IF MeetsThreshold(best.score, min_score)
            THEN <<[agent_id |-> Head(all_agents).agent_id,
                    score |-> best.score,
                    matched_capability |-> best.capability]>> \o rest
            ELSE rest

\* scored_agents.sort(key=score, reverse=True): stable, equal scores keep
\* their order.
RECURSIVE InsertByScore(_, _)
InsertByScore(x, seq) ==
    IF seq = <<>> THEN <<x>>
    ELSE IF seq[1].score > x.score THEN <<seq[1]>> \o InsertByScore(x, Tail(seq))
    ELSE <<x>> \o seq

RECURSIVE SortByScore(_)
SortByScore(seq) ==
    IF seq = <<>> THEN <<>>
    ELSE InsertByScore(seq[1], SortByScore(Tail(seq)))

match_capability_result(reg, text, tags, min_score) ==
    SortByScore(ScoredAgents(reg, text, tags, min_score))

NotMatched ==
    [called |-> FALSE, text |-> <<>>, tags |-> <<>>, min_score |-> 0,
     result |-> <<>>]

\* No call of calculate_capability_score yet.
NotScored ==
    [called |-> FALSE, query_words |-> 1, skills |-> <<>>, tags |-> <<>>,
     description_matches |-> 0, name_matches |-> 0, score |-> 0]

InitDiscovery ==
    /\ in_memory_registry = <<>>
    /\ clock = 0
    /\ matched = NotMatched
    /\ capability_score = NotScored

\* No capability registry is in use.
IdleDiscovery ==
    /\ in_memory_registry = <<>>
    /\ clock = 0
    /\ matched = NotMatched
    /\ capability_score = NotScored

\* self.in_memory_registry[agent_id] = {capabilities, last_updated}: a new key
\* goes last in the dict's order, an existing key keeps its place.
RegistryPut(reg, agent_id, capabilities, t) ==
    LET entry == [agent_id |-> agent_id, capabilities |-> capabilities,
                  last_updated |-> t]
    IN IF \E i \in 1..Len(reg) : reg[i].agent_id = agent_id
       THEN [i \in 1..Len(reg) |->
                IF reg[i].agent_id = agent_id THEN entry ELSE reg[i]]
       ELSE Append(reg, entry)

register_agent_capabilities ==
    /\ clock < MaxClock
    /\ clock' = clock + 1
    /\ \E agent_id \in AgentIds, capabilities \in CapLists :
        in_memory_registry' =
            RegistryPut(in_memory_registry, agent_id, capabilities, clock + 1)
    /\ UNCHANGED <<matched, capability_score>>
    /\ UNCHANGED <<matcherVars, runtimeVars, registryVars, lifecycleVars,
                   plannerVars, factoryVars>>

match_capability ==
    /\ \E text \in QueryTexts, tags \in QueryTags, min_score \in MinScores :
        matched' = [called |-> TRUE, text |-> text, tags |-> tags,
                    min_score |-> min_score,
                    result |-> match_capability_result(in_memory_registry,
                                                       text, tags, min_score)]
    /\ UNCHANGED <<in_memory_registry, clock, capability_score>>
    /\ UNCHANGED <<matcherVars, runtimeVars, registryVars, lifecycleVars,
                   plannerVars, factoryVars>>

\* ---- agents/capability_matcher/agent.py: calculate_capability_score
\* How a skill of the agent compares with the query: its lowercased text is
\* part of the query ("exact"), it shares a word with the query ("partial"),
\* or neither. Tags likewise: part of the query ("direct"), holding a word
\* of the query ("partial"), or neither. Scores are in tenths.
SkillMatches == {"exact", "partial", "none"}
TagMatches == {"direct", "partial", "none"}
MaxSkills == 2
SkillLists == UNION {[1..n -> SkillMatches] : n \in 0..MaxSkills}
TagLists == UNION {[1..n -> TagMatches] : n \in 0..1}
QueryWordCounts == {1, 2}

\* Lines 245-254: 1.0 for an exact skill match, 0.7 for a partial one.
SkillScore(skill) ==
    IF skill = "exact" THEN 10 ELSE IF skill = "partial" THEN 7 ELSE 0
\* Lines 257-264: 0.6 for a direct tag match, 0.4 for a partial one.
TagScore(tag) ==
    IF tag = "direct" THEN 6 ELSE IF tag = "partial" THEN 4 ELSE 0

RECURSIVE SumSeq(_)
SumSeq(seq) == IF seq = <<>> THEN 0 ELSE Head(seq) + SumSeq(Tail(seq))

\* The score is the best of the parts.
Accumulate_Best(parts) ==
    LET best == {p \in Elems(parts) : \A q \in Elems(parts) : q <= p}
    IN IF parts = <<>> THEN 0 ELSE CHOOSE p \in best : TRUE

\* `score += ...` over every skill, tag, description word and name word.
Accumulate(parts) == SumSeq(parts)

\* Lines 292-294: min(score / max_possible_score, 1.0), in thousandths; no
\* requirements are passed.
Normalized(score, query_words) ==
    LET max_possible_score == query_words + 0 + 1
        normalized_score == (score * 100) \div max_possible_score
    IN IF normalized_score > 1000 THEN 1000 ELSE normalized_score

\* The addends of the score of one agent, in the order they are added.
ScoreParts(skills, tags, description_matches, name_matches) ==
    [i \in 1..Len(skills) |-> SkillScore(skills[i])]
    \o [i \in 1..Len(tags) |-> TagScore(tags[i])]
    \o <<description_matches * 3, name_matches * 5>>

calculate_capability_score ==
    /\ \E query_words \in QueryWordCounts, skills \in SkillLists,
          tags \in TagLists, description_matches \in 0..1,
          name_matches \in 0..1 :
        capability_score' = [called |-> TRUE, query_words |-> query_words,
                   skills |-> skills, tags |-> tags,
                   description_matches |-> description_matches,
                   name_matches |-> name_matches,
                   score |-> Normalized(
                       Accumulate(ScoreParts(skills, tags, description_matches,
                                             name_matches)),
                       query_words)]
    /\ UNCHANGED <<in_memory_registry, clock, matched>>
    /\ UNCHANGED <<matcherVars, runtimeVars, registryVars, lifecycleVars,
                   plannerVars, factoryVars>>

\* ------------------------------------------------------------ TaskFactory
\* Two modules define a TaskFactory class: core/factories/task_factory.py (the
\* one the package exports) and core/factories/factories.py. Both are modelled
\* as if every name they use were imported (task_factory.py uses Enum without
\* importing it, and both import the enums from a module path that does not
\* exist). Weights and complexity scores are in ten-thousandths.
TASK_FACTORY == "task_factory.py"
FACTORIES == "factories.py"
Factories == {TASK_FACTORY, FACTORIES}

HISTORY_LIMIT == 1000
MIN_SAMPLES_FOR_TUNING == 10
Categories == {"analytical", "comparative", "creative", "complex"}
InitialWeights ==
    [analytical |-> 10000, comparative |-> 15000, creative |-> 20000,
     complex |-> 25000]
InitialThresholds == [high |-> 50, medium |-> 20]

\* EVENT_EFFORT_MAP
HighEvents ==
    {"refine", "escalate", "critique", "conclude", "analyze", "evaluate",
     "compare", "refactor"}
MediumEvents == {"plan", "execute"}
LowEvents == {"complete", "info"}

\* No value was passed for confidence or deadline_pressure.
Unset == 0 - 1

\* What estimate_reasoning_effort reads of a content string: len(content.split())
\* and, per category, the whole-word occurrences of its keywords
\* (count_keyword_occurrences).
WordCounts == {3, 25, 60}
NoKeyword == [c \in Categories |-> 0]
KeywordCounts ==
    {NoKeyword,
     [NoKeyword EXCEPT !["complex"] = 1],
     [NoKeyword EXCEPT !["analytical"] = 1],
     [NoKeyword EXCEPT !["analytical"] = 1, !["comparative"] = 1,
                       !["creative"] = 1],
     [NoKeyword EXCEPT !["analytical"] = 1, !["complex"] = 2]}
Contents ==
    {[word_count |-> w, category_scores |-> k] :
        w \in WordCounts, k \in KeywordCounts}
Events == {None, "refine", "plan", "PLAN", "complete"}
Intents == {None, "modify_task", "start_task"}
\* confidence and deadline_pressure, in hundredths.
Confidences == {Unset, 50, 72, 90}
DeadlinePressures == {Unset, 75, 90}

\* str.lower() on the event names above.
EventLower(event) == IF event = "PLAN" THEN "plan" ELSE event

\* round(x, 2) of a value in ten-thousandths: the nearest hundredth, a tie
\* going to the even one.
RoundHundredths(x) ==
    LET down == (x \div 100) * 100
        rest == x - down
    IN IF rest < 50 THEN down
       ELSE IF rest > 50 THEN down + 100
       ELSE IF (down \div 100) % 2 = 0 THEN down ELSE down + 100

RECURSIVE SumOver(_, _)
SumOver(f, dom) ==
    IF dom = {} THEN 0
    ELSE LET c == CHOOSE x \in dom : TRUE
         IN f[c] + SumOver(f, dom \ {c})

\* calculate_complexity_score: occurrences times weight, summed over the
\* categories, plus the overlap bonus.
calculate_complexity_score(content) ==
    LET scores == content.category_scores
        total == SumOver([c \in Categories |-> scores[c] * KEYWORD_WEIGHTS[c]],
                         Categories)
        active_categories == Cardinality({c \in Categories : scores[c] > 0})
    IN IF factory = TASK_FACTORY
       THEN RoundHundredths(total + IF active_categories > 1
                                    THEN 2500 * (active_categories - 1) ELSE 0)
       ELSE total + IF active_categories > 2
                    THEN 5000 * (active_categories - 2) ELSE 0

\* Base effort from the complexity score and the word count against the
\* thresholds scaled down by the score.
BaseEffort(content) ==
    LET Max(a, b) == IF a >= b THEN a ELSE b
        complexity_score == calculate_complexity_score(content)
        words == content.word_count * 10000
        high_threshold ==
            Max(10 * 10000,
                WORD_COUNT_THRESHOLDS.high * 10000 - complexity_score * 5)
        medium_threshold ==
            Max(5 * 10000,
                WORD_COUNT_THRESHOLDS.medium * 10000 - complexity_score * 2)
        high_score == IF factory = TASK_FACTORY THEN 20000 ELSE 30000
        medium_score == IF factory = TASK_FACTORY THEN 5000 ELSE 10000
    IN IF complexity_score >= high_score \/ words > high_threshold THEN "high"
       ELSE IF complexity_score >= medium_score \/ words > medium_threshold
       THEN "medium"
       ELSE "low"

\* The event raises the level to "low".
AfterEvent_Downgrade(level, event) ==
    IF event # None /\ EventLower(event) \in LowEvents THEN "low" ELSE level

\* Event-based adjustment: a high event raises to high, a medium event raises
\* low to medium, anything else leaves the level. task_factory.py lowercases
\* the event first.
AfterEvent(level, event) ==
    LET e == IF factory = TASK_FACTORY THEN EventLower(event) ELSE event
    IN IF event = None THEN level
       ELSE IF e \in HighEvents THEN "high"
       ELSE IF e \in MediumEvents /\ level = "low" THEN "medium"
       ELSE level

\* Intent-based adjustment.
AfterIntent(level, intent) ==
    IF factory = TASK_FACTORY
    THEN IF intent \in {"modify_task", "start_task"}
         THEN IF level = "low" THEN "medium"
              ELSE IF level = "medium" THEN "high" ELSE level
         ELSE level
    ELSE IF intent = "modify_task" THEN "high" ELSE level

\* Confidence-based adjustment: below 0.75 (0.7 in factories.py) one level up.
AfterConfidence(level, confidence) ==
    IF /\ confidence # Unset
       /\ confidence < (IF factory = TASK_FACTORY THEN 75 ELSE 70)
    THEN IF level = "low" THEN "medium"
         ELSE IF level = "medium" THEN "high" ELSE level
    ELSE level

\* Deadline pressure adjustment: above 0.7 (0.8 in factories.py) to high.
AfterDeadline(level, deadline_pressure) ==
    IF /\ deadline_pressure # Unset
       /\ deadline_pressure > (IF factory = TASK_FACTORY THEN 70 ELSE 80)
    THEN "high"
    ELSE level

\* No guardrail.
Guardrail_Off(level, complex_count) == level

\* Final guardrail: complex keywords and low give medium.
Guardrail(level, complex_count) ==
    IF complex_count > 0 /\ level = "low" THEN "medium" ELSE level

\* The diagnostics of one call: the complex keyword count, the base effort, the level after each of the
\* five adjustments in the order they are applied, the final effort.
Diagnostics(content, event, intent, confidence, deadline_pressure) ==
    LET base_effort == BaseEffort(content)
        l1 == AfterEvent(base_effort, event)
        l2 == AfterIntent(l1, intent)
        l3 == AfterConfidence(l2, confidence)
        l4 == AfterDeadline(l3, deadline_pressure)
        l5 == Guardrail(l4, content.category_scores["complex"])
    IN [called |-> TRUE,
        complex_count |-> content.category_scores["complex"],
        base_effort |-> base_effort,
        levels |-> <<l1, l2, l3, l4, l5>>,
        final_effort |-> l5]
NoEstimate ==
    [called |-> FALSE, complex_count |-> 0,
     base_effort |-> "low", levels |-> <<>>, final_effort |-> "low"]

\* The class attributes as the module defines them.
InitFactory ==
    /\ factory \in Factories
    /\ AUTO_TUNING_ENABLED \in BOOLEAN
    /\ KEYWORD_WEIGHTS = InitialWeights
    /\ WORD_COUNT_THRESHOLDS = InitialThresholds
    /\ outcome_history = 0
    /\ tunings = 0
    /\ analysed = FALSE
    /\ estimate = NoEstimate

\* No TaskFactory is in use.
IdleFactory ==
    /\ factory = TASK_FACTORY
    /\ AUTO_TUNING_ENABLED = FALSE
    /\ KEYWORD_WEIGHTS = InitialWeights
    /\ WORD_COUNT_THRESHOLDS = InitialThresholds
    /\ outcome_history = 0
    /\ tunings = 0
    /\ analysed = FALSE
    /\ estimate = NoEstimate

\* Weights and thresholds that tuning leaves after enough passes: a weight at
\* its floor (0.1, in factories.py 0.5) or at the ceiling 5.0, thresholds at
\* their floors or caps.
WeightFloor(f) == IF f = TASK_FACTORY THEN 1000 ELSE 5000
TunedWeights(f) ==
    {InitialWeights,
     [InitialWeights EXCEPT !.complex = WeightFloor(f)],
     [InitialWeights EXCEPT !.complex = 50000, !.analytical = WeightFloor(f)]}
TunedThresholds(f) ==
    IF f = TASK_FACTORY
    THEN {InitialThresholds, [high |-> 10, medium |-> 5],
          [high |-> 100, medium |-> 20], [high |-> 10, medium |-> 20]}
    ELSE {InitialThresholds, [high |-> 45, medium |-> 25],
          [high |-> 30, medium |-> 30]}

\* A TaskFactory after any number of tuning passes, its history at the limit.
InitTunedFactory ==
    /\ factory \in Factories
    /\ AUTO_TUNING_ENABLED = TRUE
    /\ KEYWORD_WEIGHTS \in TunedWeights(factory)
    /\ WORD_COUNT_THRESHOLDS \in TunedThresholds(factory)
    /\ outcome_history = HISTORY_LIMIT
    /\ tunings = 0
    /\ analysed = FALSE
    /\ estimate = NoEstimate

\* The TaskFactory of task_factory.py part-way through tuning, after twelve
\* passes in which the complex tasks were the fastest (2.5 lowered to 0.36),
\* four in which MEDIUM tasks were as slow as HIGH ones (50 lowered to 25, one
\* more pending) and one in which LOW tasks were as slow as MEDIUM ones (20
\* lowered to 17); the last pass has trimmed the history to the limit.
RetunedWeights == [InitialWeights EXCEPT !.complex = 3600]
RetunedThresholds == [high |-> 25, medium |-> 17]
InitRetunedFactory ==
    /\ factory = TASK_FACTORY
    /\ AUTO_TUNING_ENABLED = TRUE
    /\ KEYWORD_WEIGHTS = RetunedWeights
    /\ WORD_COUNT_THRESHOLDS = RetunedThresholds
    /\ outcome_history = HISTORY_LIMIT
    /\ tunings = 0
    /\ analysed = TRUE
    /\ estimate = NoEstimate

estimate_reasoning_effort ==
    /\ \E content \in Contents, event \in Events, intent \in Intents,
          confidence \in Confidences, deadline_pressure \in DeadlinePressures :
        estimate' = Diagnostics(content, event, intent, confidence,
                                deadline_pressure)
    /\ UNCHANGED <<factory, AUTO_TUNING_ENABLED, KEYWORD_WEIGHTS,
                   WORD_COUNT_THRESHOLDS, outcome_history, tunings,
                   analysed>>
    /\ UNCHANGED <<matcherVars, runtimeVars, registryVars, lifecycleVars,
                   plannerVars, discoveryVars>>

\* Passes of _analyze_outcomes that produce tuning recommendations.
MaxTunings == 4

\* min(5.0, w) without the ceiling.
Ceiling_Off(w) == w

\* min(5.0, w), w in ten-thousandths.
Ceiling(w) == IF w > 50000 THEN 50000 ELSE w

AtLeast(low, x) == IF x < low THEN low ELSE x
AtMost(high, x) == IF x > high THEN high ELSE x

\* The misclassifications an analysis pass can find.
LOW_SLOW == "LOW tasks avg duration >= MEDIUM tasks avg duration"
MEDIUM_SLOW == "MEDIUM tasks avg duration >= HIGH tasks avg duration"
HIGH_FAST == "HIGH tasks are fast & successful, may be overestimated"

\* What the statistics of the recorded outcomes show in one pass: the category
\* whose average duration stands out above the others, the one that stands
\* out below, and the misclassifications. In task_factory.py a category stands
\* out when its z-score is beyond 1.0; over at most four category averages a
\* z-score is at most 1.5, and 1.2 is taken.
NoStats == [up |-> None, down |-> None, issues |-> {}]
ZScore == 12
Statistics(f) ==
    IF f = TASK_FACTORY
    THEN {NoStats,
          [NoStats EXCEPT !.up = "complex"],
          [NoStats EXCEPT !.down = "creative"],
          [NoStats EXCEPT !.issues = {LOW_SLOW}],
          [NoStats EXCEPT !.issues = {MEDIUM_SLOW}],
          [NoStats EXCEPT !.issues = {HIGH_FAST}],
          [NoStats EXCEPT !.up = "complex", !.issues = {MEDIUM_SLOW, HIGH_FAST}]}
    ELSE {NoStats,
          [NoStats EXCEPT !.up = "complex"],
          [NoStats EXCEPT !.down = "creative"],
          [NoStats EXCEPT !.issues = {LOW_SLOW}],
          [NoStats EXCEPT !.issues = {HIGH_FAST}]}

\* A tuning recommendation: its target and the suggested value.
Recommendation(target, suggested) == [target |-> target, suggested |-> suggested]
WeightTarget(category) == <<"weight", category>>
MEDIUM_THRESHOLD == <<"word_count_medium_threshold", None>>
HIGH_THRESHOLD == <<"word_count_high_threshold", None>>

\* The recommendations for the category weights.
WeightRecommendations(stats) ==
    LET upW == KEYWORD_WEIGHTS[stats.up]
        downW == KEYWORD_WEIGHTS[stats.down]
        upS == IF factory = TASK_FACTORY
               THEN Ceiling(RoundHundredths((upW * (100 + ZScore)) \div 100))
               ELSE Ceiling((upW * 12) \div 10)
        downS == IF factory = TASK_FACTORY
                 THEN AtLeast(1000,
                              RoundHundredths((downW * (100 - ZScore)) \div 100))
                 ELSE AtLeast(5000, (downW * 8) \div 10)
    IN (IF stats.up # None /\ (factory = FACTORIES \/ upS > upW)
        THEN <<Recommendation(WeightTarget(stats.up), upS)>> ELSE <<>>)
       \o
       (IF stats.down # None /\ (factory = FACTORIES \/ downS < downW)
        THEN <<Recommendation(WeightTarget(stats.down), downS)>> ELSE <<>>)

\* The recommendations that follow from the misclassifications. Those of
\* task_factory.py for the complexity thresholds are ignored when applied and
\* are left out.
IssueRecommendations(stats) ==
    LET medium == WORD_COUNT_THRESHOLDS.medium
        high == WORD_COUNT_THRESHOLDS.high
    IN IF factory = TASK_FACTORY
       THEN (IF LOW_SLOW \in stats.issues
             THEN <<Recommendation(MEDIUM_THRESHOLD, AtLeast(5, medium - 3))>>
             ELSE <<>>)
            \o
            (IF MEDIUM_SLOW \in stats.issues
             THEN <<Recommendation(HIGH_THRESHOLD, AtLeast(10, high - 5))>>
             ELSE <<>>)
            \o
            (IF HIGH_FAST \in stats.issues
             THEN <<Recommendation(HIGH_THRESHOLD, AtMost(100, high + 10)),
                    Recommendation(WeightTarget("complex"),
                        AtLeast(5000,
                            RoundHundredths(
                                (KEYWORD_WEIGHTS["complex"] * 85) \div 100)))>>
             ELSE <<>>)
       ELSE (IF LOW_SLOW \in stats.issues
             THEN <<Recommendation(MEDIUM_THRESHOLD, AtMost(30, medium + 5))>>
             ELSE <<>>)
            \o
            (IF HIGH_FAST \in stats.issues
             THEN <<Recommendation(HIGH_THRESHOLD, AtLeast(30, high - 5))>>
             ELSE <<>>)

tuning_recommendations(stats) ==
    WeightRecommendations(stats) \o IssueRecommendations(stats)

\* The weight task_factory.py sets for a suggestion: clamped to 0.1..5.0 and
\* moved by at most 30% of the old weight.
BoundedWeight(old_weight, suggested) ==
    LET new_weight == RoundHundredths(AtLeast(1000, Ceiling(suggested)))
        change == IF new_weight > old_weight THEN new_weight - old_weight
                  ELSE old_weight - new_weight
    IN IF change * 10 > old_weight * 3
       THEN RoundHundredths(IF new_weight > old_weight
                            THEN (old_weight * 13) \div 10
                            ELSE (old_weight * 7) \div 10)
       ELSE new_weight

\* One recommendation applied to the configuration
\* [weights, thresholds, applied_targets].
ApplyOne(config, rec) ==
    LET kind == rec.target[1]
        category == rec.target[2]
    IN IF factory = FACTORIES
       THEN IF kind = "weight"
            THEN [config EXCEPT !.weights[category] = rec.suggested]
            ELSE IF rec.target = MEDIUM_THRESHOLD
            THEN [config EXCEPT !.thresholds.medium = rec.suggested]
            ELSE [config EXCEPT !.thresholds.high = rec.suggested]
       ELSE IF rec.target \in config.applied_targets THEN config
       ELSE LET new_value ==
                    IF kind = "weight"
                    THEN BoundedWeight(config.weights[category], rec.suggested)
                    ELSE IF rec.target = MEDIUM_THRESHOLD
                    THEN AtLeast(5, rec.suggested)
                    ELSE AtLeast(10, rec.suggested)
                old_value ==
                    IF kind = "weight" THEN config.weights[category]
                    ELSE IF rec.target = MEDIUM_THRESHOLD
                    THEN config.thresholds.medium
                    ELSE config.thresholds.high
            IN IF new_value = old_value THEN config
               ELSE IF kind = "weight"
               THEN [config EXCEPT !.weights[category] = new_value,
                        !.applied_targets = @ \cup {rec.target}]
               ELSE IF rec.target = MEDIUM_THRESHOLD
               THEN [config EXCEPT !.thresholds.medium = new_value,
                        !.applied_targets = @ \cup {rec.target}]
               ELSE [config EXCEPT !.thresholds.high = new_value,
                        !.applied_targets = @ \cup {rec.target}]

RECURSIVE ApplyAll(_, _)
ApplyAll(config, recs) ==
    IF recs = <<>> THEN config
    ELSE ApplyAll(ApplyOne(config, Head(recs)), Tail(recs))

\* The tuning block is entered without looking at AUTO_TUNING_ENABLED.
TuningApplies_Always(recs) == recs # <<>>

\* "if cls.AUTO_TUNING_ENABLED and tuning_recommendations".
TuningApplies(recs) == AUTO_TUNING_ENABLED /\ recs # <<>>

\* record_task_outcome triggers _analyze_outcomes at this history length, and
\* the analysis does not return early for lack of outcomes.
Analyses(length) ==
    IF factory = TASK_FACTORY
    THEN /\ \/ length % HISTORY_LIMIT = 0 /\ length > 0
            \/ /\ length >= MIN_SAMPLES_FOR_TUNING * 5
               /\ length < 100
               /\ length % (MIN_SAMPLES_FOR_TUNING * 2) = 0
         /\ length >= MIN_SAMPLES_FOR_TUNING
    ELSE /\ length >= 100
         /\ length >= 50

\* outcome_history[-HISTORY_LIMIT:], RETAIN_HISTORY being True.
Trimmed(length) == AtMost(HISTORY_LIMIT, length)

\* record_task_outcome with the diagnostics of an estimate: the outcome is
\* appended, and when the analysis is triggered, _analyze_outcomes computes
\* the recommendations from the statistics, applies them when auto-tuning is
\* enabled and trims the history.
record_task_outcome ==
    LET length == outcome_history + 1
    IN /\ analysed' = Analyses(length)
       /\ IF Analyses(length)
          THEN \E stats \in Statistics(factory) :
                LET recs == tuning_recommendations(stats)
                    config == ApplyAll([weights |-> KEYWORD_WEIGHTS,
                                        thresholds |-> WORD_COUNT_THRESHOLDS,
                                        applied_targets |-> {}], recs)
                IN /\ recs # <<>> => tunings < MaxTunings
                   /\ tunings' = IF recs # <<>> THEN tunings + 1 ELSE tunings
                   /\ IF TuningApplies(recs)
                      THEN /\ KEYWORD_WEIGHTS' = config.weights
                           /\ WORD_COUNT_THRESHOLDS' = config.thresholds
                      ELSE UNCHANGED <<KEYWORD_WEIGHTS, WORD_COUNT_THRESHOLDS>>
                   /\ outcome_history' = Trimmed(length)
          ELSE /\ outcome_history' = length
               /\ UNCHANGED <<KEYWORD_WEIGHTS, WORD_COUNT_THRESHOLDS, tunings>>
       /\ UNCHANGED <<factory, AUTO_TUNING_ENABLED, estimate>>
       /\ UNCHANGED <<matcherVars, runtimeVars, registryVars, lifecycleVars,
                      plannerVars, discoveryVars>>

\* ------------------------------------------------------- specifications
NextMatcher ==
    \/ XAddToMatch
    \/ MatcherRead
    \/ MatcherReadFail
    \/ MatcherValidate
    \/ MatcherAckRouted
    \/ MatcherXAddInbox
    \/ MatcherXAddAudit
    \/ MatcherFinallyAck

InitMatcherOnly ==
    InitMatcher /\ IdleRuntime /\ IdleRegistry /\ IdleLifecycle
    /\ IdlePlanner /\ IdleDiscovery /\ IdleFactory

SpecMatcher == InitMatcherOnly /\ [][NextMatcher]_vars

NextRuntime ==
    \/ XAddInbox
    \/ SignalHandler
    \/ EnhancedLoopExit
    \/ EnhancedRead
    \/ EnhancedReadFail
    \/ EnhancedValidate
    \/ EnhancedHandle
    \/ EnhancedXAdd
    \/ EnhancedXAck
    \/ EnhancedSleep
    \/ DualRead
    \/ DualReadFail
    \/ DualValidate
    \/ DualHandle
    \/ DualPublish
    \/ DualFinallyAck

InitRuntimeOnly ==
    InitRuntime /\ IdleMatcher /\ IdleRegistry /\ IdleLifecycle
    /\ IdlePlanner /\ IdleDiscovery /\ IdleFactory

SpecRuntime == InitRuntimeOnly /\ [][NextRuntime]_vars

NextRegistry ==
    \/ AdvanceTime
    \/ register_mcp_tool
    \/ update_mcp_tool_heartbeat
    \/ discover_all_mcp_tools
    \/ unregister_mcp_tool
    \/ cleanup_stale_tools
    \/ register_agent
    \/ agent_heartbeat
    \/ list_agents
    \/ unregister_agent

InitRegistryOnly ==
    InitRegistry /\ IdleMatcher /\ IdleRuntime /\ IdleLifecycle
    /\ IdlePlanner /\ IdleDiscovery /\ IdleFactory

SpecRegistry == InitRegistryOnly /\ [][NextRegistry]_vars

NextLifecycle ==
    \/ _setup_dependencies
    \/ _register
    \/ EnhancedShutdownFlag
    \/ EnhancedCancelTasks
    \/ _cleanup_dependencies
    \/ _unregister
    \/ EnhancedAclose
    \/ DualLifespan
    \/ register_with_registry
    \/ stop_heartbeat_thread
    \/ unregister
    \/ lifespan_startup
    \/ lifespan_shutdown
    \/ _heartbeat_loop
    \/ send_heartbeat
    \/ matcher_send_heartbeat
    \/ HeartbeatSleep
    \/ ConsumeMessage
    \/ HandlerReturns
    \/ RegistryRestart

InitLifecycleOnly ==
    InitLifecycle /\ IdleMatcher /\ IdleRuntime /\ IdleRegistry
    /\ IdlePlanner /\ IdleDiscovery /\ IdleFactory

SpecLifecycle == InitLifecycleOnly /\ [][NextLifecycle]_vars

\* A heartbeat task that is alive keeps running: the event loop (or the
\* thread scheduler) runs its next step.
HeartbeatFairness ==
    /\ WF_vars(_heartbeat_loop)
    /\ WF_vars(send_heartbeat)
    /\ WF_vars(matcher_send_heartbeat)
    /\ WF_vars(HeartbeatSleep)

SpecLifecycleFair == SpecLifecycle /\ HeartbeatFairness

NextPlanner ==
    \/ PlannerReceive
    \/ PlannerPlan
    \/ PlannerEmit
    \/ PlannerReturn
    \/ PlannerExcept

InitPlannerOnly ==
    InitPlanner /\ IdleMatcher /\ IdleRuntime /\ IdleRegistry /\ IdleLifecycle
    /\ IdleDiscovery /\ IdleFactory

SpecPlanner == InitPlannerOnly /\ [][NextPlanner]_vars

NextDiscovery ==
    \/ register_agent_capabilities
    \/ match_capability

InitDiscoveryOnly ==
    InitDiscovery /\ IdleMatcher /\ IdleRuntime /\ IdleRegistry /\ IdleLifecycle
    /\ IdlePlanner /\ IdleFactory

SpecDiscovery == InitDiscoveryOnly /\ [][NextDiscovery]_vars

NextScoring ==
    \/ calculate_capability_score

\* The scoring function of the capability matcher service on its own.
SpecScoring == InitDiscoveryOnly /\ [][NextScoring]_vars

NextEffort ==
    \/ estimate_reasoning_effort

InitEffortOnly ==
    InitTunedFactory /\ IdleMatcher /\ IdleRuntime /\ IdleRegistry
    /\ IdleLifecycle /\ IdlePlanner /\ IdleDiscovery

\* Effort estimation under every tuned configuration.
SpecEffort == InitEffortOnly /\ [][NextEffort]_vars

NextTuning ==
    \/ record_task_outcome

InitTuningOnly ==
    InitFactory /\ IdleMatcher /\ IdleRuntime /\ IdleRegistry
    /\ IdleLifecycle /\ IdlePlanner /\ IdleDiscovery

\* Outcome recording and tuning from the initial configuration.
SpecTuning == InitTuningOnly /\ [][NextTuning]_vars

NextRetuning ==
    \/ record_task_outcome

InitRetuningOnly ==
    InitRetunedFactory /\ IdleMatcher /\ IdleRuntime /\ IdleRegistry
    /\ IdleLifecycle /\ IdlePlanner /\ IdleDiscovery

\* Outcome recording and tuning of a factory that has been tuned before.
SpecRetuning == InitRetuningOnly /\ [][NextRetuning]_vars

\* ------------------------------------------------ claims on the matcher
MatcherDone(m) == m <= mDelivered /\ (m # mCur \/ mpc = "read")

\* C1: if publishing an envelope to the winner's inbox or to the audit channel
\* fails, the source message is not acknowledged: it stays in the pending
\* list of the unassigned-work channel, available for re-delivery.
C1_FailedPublishNotAcked ==
    \A m \in mPubFailed : m \in mPending /\ mAckCalls[m] = 0

\* C2: every message the matcher processes is acknowledged exactly once, never
\* twice, including a message whose envelope already carries an assigned agent.
C2_AckedExactlyOnce ==
    \A m \in MsgIds :
        /\ mAckCalls[m] <= 1
        /\ MatcherDone(m) => mAckCalls[m] = 1

Published(m) == \E i \in 1..Len(results) : results[i].src = m
PublishedFailed(m) ==
    \E i \in 1..Len(results) : results[i].src = m /\ results[i].status = "failed"
\* The loop has left the processing of delivered message m.
RuntimeDone(m) == m <= delivered /\ (m # wCur \/ wpc \in {"read", "sleep", "stopped"})

\* C4: when the handler raises on a delivered message, the runtime still
\* acknowledges the message, marks the envelope FAILED and publishes that
\* FAILED envelope to the event log; the failure is never silently dropped.
C4_HandlerFaultPublishedFailed ==
    \A m \in handlerRaised \ pubFailed :
        ackCalls[m] >= 1 => PublishedFailed(m)

\* C5: an inbox message is acknowledged only after its result envelope has been
\* published to the event log: no message carrying a valid envelope is
\* acknowledged while its result is unpublished.
C5_AckOnlyAfterPublish ==
    \A m \in 1..delivered :
        (agentInbox[m].valid /\ ackCalls[m] >= 1) => Published(m)

\* C6: when the log is unreachable while a result is being published, the
\* message is not dropped: until its result is published it stays unacknowledged
\* and it is the message the worker keeps processing (retrying after a backoff).
C6_FailedPublishRetried ==
    \A m \in pubFailed :
        Published(m) \/ (m \in pending /\ wCur = m)

\* C7: a delivered message whose payload cannot be deserialized is acknowledged
\* and discarded: the handler is not invoked for it and it does not stay in the
\* consumer group's pending list.
C7_MalformedAckedAndDiscarded ==
    \A m \in 1..delivered :
        (~agentInbox[m].valid /\ RuntimeDone(m)) =>
            (handleCalls[m] = 0 /\ m \notin pending)

\* C8: for every message delivered from the inbox the handler is invoked at
\* most once.
C8_HandlerAtMostOnce ==
    \A m \in MsgIds : handleCalls[m] <= 1

\* The handler ran for a message whose result could not be published, and the
\* loop went on to deliver the next message.
C8_Witness ==
    \E m \in pubFailed :
        /\ handleCalls[m] = 1
        /\ ~Published(m)
        /\ delivered > m
        /\ handleCalls[delivered] = 1

\* ---------------------------------------- claims on the registry services
Store == IF service = MCP_REGISTRY THEN mcp_tools ELSE agents_collection

\* C9: a heartbeat for an agent id that is not registered (never registered,
\* unregistered, or purged) is answered with 404 and neither creates nor
\* revives a registry entry.
C9_UnknownHeartbeat404 ==
    [][\A id \in RegIds :
        (/\ resp'.n # resp.n
         /\ resp'.op = "heartbeat"
         /\ resp'.id = id
         /\ ~mcp_tools[id].present
         /\ ~agents_collection[id].present)
        => (/\ resp'.code = 404
            /\ mcp_tools' = mcp_tools
            /\ agents_collection' = agents_collection
            /\ agent_hash' = agent_hash)]_vars

\* A 404 has just answered the heartbeat of an id whose entry was purged by the
\* sweep, and the id is still absent.
C9_Witness ==
    /\ resp.op = "heartbeat"
    /\ resp.code = 404
    /\ lastRemoval[resp.id] = "purged"
    /\ ~Store[resp.id].present

\* C10: list(), unless asked for all entries, returns only entries with
\* now - lastHeartbeat < timeout: an entry whose last heartbeat is older than
\* the timeout is not in the result, whether or not the sweep has run. (An
\* entry that has no heartbeat recorded at all is left out of the statement.)
ListTimeout == IF service = MCP_REGISTRY THEN HEARTBEAT_TIMEOUT ELSE AGENT_KEY_TTL

C10_ListOnlyLive ==
    [][(resp'.n # resp.n /\ resp'.op = "list")
        => \A id \in resp'.ids :
             /\ Store[id].present
             /\ Store[id].last_heartbeat # NoTime
                  => now - Store[id].last_heartbeat < ListTimeout]_vars

\* A pass of the background sweep of mcp_registry: the only step that changes
\* the collection without a request being answered.
SweepPass == resp' = resp /\ now' = now /\ mcp_tools' # mcp_tools

\* The sweep deletes the document of id in this step.
Purges(id) == SweepPass /\ mcp_tools[id].present /\ ~mcp_tools'[id].present

\* C11 (as stated): the sweep marks an entry STALE once it is past the
\* heartbeat timeout, and purges an entry only after it has been STALE for
\* longer than the second, larger grace window; until then the stale entry is
\* kept.
C11_PurgedOnlyAfterStaleGrace ==
    [][\A id \in RegIds :
        Purges(id) => (/\ mcp_tools[id].status = "inactive"
                       /\ staleSince[id] # NoTime
                       /\ now - staleSince[id] > VERY_OLD_AGE)]_vars

\* C11 (amended): a sweep pass leaves no active entry whose last heartbeat is
\* past the heartbeat timeout, sets inactive only such entries, and purges an
\* entry only when its last heartbeat is older than the second, larger window
\* (measured from the last heartbeat, not from the moment the entry was
\* marked); every other entry, stale or not, is kept with its heartbeat time.
C11_TwoStageEviction ==
    [][\A id \in RegIds :
        (SweepPass /\ mcp_tools[id].present) =>
            LET doc == mcp_tools[id]
                after == mcp_tools'[id] IN
            /\ ~after.present <=> doc.last_heartbeat < now - VERY_OLD_AGE
            /\ after.present =>
                  /\ after.last_heartbeat = doc.last_heartbeat
                  /\ doc.last_heartbeat < now - HEARTBEAT_TIMEOUT
                        => after.status = "inactive"
                  /\ doc.last_heartbeat >= now - HEARTBEAT_TIMEOUT
                        => after.status = doc.status]_vars

\* The sweep has purged one entry while another, past the heartbeat timeout
\* but not past the larger window, is kept in the store as inactive.
C11_Witness ==
    \E id, other \in RegIds :
        /\ lastRemoval[id] = "purged"
        /\ ~mcp_tools[id].present
        /\ mcp_tools[other].present
        /\ mcp_tools[other].status = "inactive"
        /\ now - mcp_tools[other].last_heartbeat > HEARTBEAT_TIMEOUT
        /\ now - mcp_tools[other].last_heartbeat <= VERY_OLD_AGE

\* C12: a heartbeat that arrives after an entry has been marked STALE but
\* before it is purged restores the entry to ACTIVE (answered 200, heartbeat
\* clock reset), and the entry is returned by list() again: a list() made
\* within the heartbeat timeout of that heartbeat contains it.
C12_HeartbeatRestoresStale ==
    [][\A id \in RegIds :
        /\ (/\ resp'.n # resp.n
             /\ resp'.op = "heartbeat"
             /\ resp'.id = id
             /\ mcp_tools[id].present
             /\ mcp_tools[id].status = "inactive")
            => (/\ resp'.code = 200
                /\ mcp_tools'[id].present
                /\ mcp_tools'[id].status = "active"
                /\ mcp_tools'[id].last_heartbeat = now)
        /\ (/\ resp'.n # resp.n
             /\ resp'.op = "list"
             /\ service = MCP_REGISTRY
             /\ mcp_tools[id].present
             /\ staleSince[id] # NoTime
             /\ mcp_tools[id].last_heartbeat >= staleSince[id]
             /\ now - mcp_tools[id].last_heartbeat < HEARTBEAT_TIMEOUT)
            => id \in resp'.ids]_vars

\* list() has just returned an entry that the sweep had marked STALE and that
\* a later heartbeat restored.
C12_Witness ==
    /\ resp.op = "list"
    /\ \E id \in resp.ids :
          /\ staleSince[id] # NoTime
          /\ mcp_tools[id].status = "active"
          /\ mcp_tools[id].last_heartbeat >= staleSince[id]

\* C13: register(entry) is an idempotent upsert that resets the heartbeat
\* clock: it succeeds whether or not the id already exists, leaves exactly one
\* entry for the id and touches no other entry, and the stored lastHeartbeat
\* is the time of the call, so that the entry counts as live.
C13_RegisterResetsClock ==
    [][\A id \in RegIds :
        (/\ resp'.n # resp.n
         /\ resp'.op = "register"
         /\ resp'.id = id)
        => (/\ resp'.code = 200
            /\ Store'[id].present
            /\ Store'[id].last_heartbeat = now
            /\ \A other \in RegIds \ {id} : Store'[other] = Store[other])]_vars

\* ------------------------------------------ claims on the worker lifecycle
\* C14: self-healing: if the registry repeatedly rejects a worker's heartbeats
\* (404 after a registry restart), the worker eventually makes a
\* re-registration attempt (unless it is shut down first), while message
\* processing continues: the rejections do not end the consumer task.
C14_SelfHealing ==
    /\ (lpc = "running" /\ hbRejected = MaxRejects)
          ~> (registerCalls > 1 \/ lpc # "running")
    /\ [](lpc = "running" /\ hbRejected > 0 /\ entity # MATCHER_APP
              => consumerTask = "running")

\* Position of the first occurrence of event e in the shutdown log (0: none).
Pos(e) ==
    IF \E i \in 1..Len(shutdownLog) : shutdownLog[i] = e
    THEN CHOOSE i \in 1..Len(shutdownLog) :
            /\ shutdownLog[i] = e
            /\ \A j \in 1..(i - 1) : shutdownLog[j] # e
    ELSE 0

\* C15: the shutdown of a worker that was registered and consuming performs,
\* in this order: stop accepting new messages, cancel the background heartbeat
\* and consumer tasks, send a deregistration request to the registry, close
\* the log connection.
C15_ShutdownOrder ==
    (lpc = "stopped" /\ registered /\ entity # MATCHER_APP) =>
        /\ Pos("stop_accepting") > 0
        /\ Pos("stop_accepting") < Pos("cancel_heartbeat")
        /\ Pos("stop_accepting") < Pos("cancel_consumer")
        /\ Pos("cancel_heartbeat") < Pos("deregister")
        /\ Pos("cancel_consumer") < Pos("deregister")
        /\ Pos("deregister") < Pos("close_log")

\* ------------------------------------- claims on matching and task history
\* Number of required capabilities that agent aid is proficient in.
Overlap(aid, req) ==
    LET entries == {i \in 1..Len(registry) : registry[i].aid = aid}
    IN IF entries = {} THEN 0
       ELSE Cardinality(req \cap registry[CHOOSE i \in entries : TRUE]
                                     .tool_proficiencies)

\* cands lists, best first, exactly the agents with some required capability,
\* each once, and winner is its head.
Ranked(winner, cands, req) ==
    /\ \A i, j \in 1..Len(cands) :
          /\ i < j => Overlap(cands[i], req) >= Overlap(cands[j], req)
          /\ i # j => cands[i] # cands[j]
    /\ {cands[i] : i \in 1..Len(cands)}
          = {registry[i].aid : i \in {k \in 1..Len(registry) :
                                   Overlap(registry[k].aid, req) > 0}}
    /\ cands # <<>> => winner = cands[1]

\* The matcher is past both publishes of message m, and neither raised.
PublishedBoth(m) ==
    /\ m <= mDelivered
    /\ m \notin mPubFailed
    /\ m # mCur \/ mpc \in {"finally_ack", "read", "dead"}

InboxEntries(m) ==
    {<<w, i>> \in Winners \X (1..MaxMsgs) :
        i <= Len(inbox[w]) /\ inbox[w][i].src = m}
AuditEntries(m) == {i \in 1..Len(dispatch) : dispatch[i].src = m}

\* C16: for an envelope with assignedAgent == null the matcher sets
\* candidateAgents to the full ranked candidate list and assignedAgent to the
\* top-ranked agent, and (when neither publish raises) publishes that updated
\* envelope once to that agent's inbox channel and once to the audit channel.
C16_UnassignedRouted ==
    \A m \in 1..mDelivered :
        (toMatch[m].valid /\ toMatch[m].assigned_agent = None) =>
            /\ \A i \in AuditEntries(m) :
                  Ranked(dispatch[i].env.assigned_agent,
                         dispatch[i].env.candidate_agents,
                         toMatch[m].required_capabilities)
            /\ \A e \in InboxEntries(m) :
                  /\ inbox[e[1]][e[2]].env.assigned_agent = e[1]
                  /\ Ranked(e[1], inbox[e[1]][e[2]].env.candidate_agents,
                            toMatch[m].required_capabilities)
            /\ PublishedBoth(m) =>
                  /\ Cardinality(AuditEntries(m)) = 1
                  /\ Cardinality(InboxEntries(m)) = 1
                  /\ \A e \in InboxEntries(m), i \in AuditEntries(m) :
                        inbox[e[1]][e[2]].env = dispatch[i].env

\* An envelope with two candidates of different rank has been published to the
\* winner's inbox and to the audit channel.
C16_Witness ==
    \E i \in 1..Len(dispatch) :
        LET env == dispatch[i].env IN
        /\ Len(env.candidate_agents) = 2
        /\ Overlap(env.candidate_agents[1], env.required_capabilities)
             > Overlap(env.candidate_agents[2], env.required_capabilities)
        /\ PublishedBoth(dispatch[i].src)
        /\ InboxEntries(dispatch[i].src) # {}

\* The matcher's registry has an entry for the fallback agent.
FallbackAvailable == \E i \in 1..Len(registry) : registry[i].aid = FALLBACK_AGENT

NoMatch(req) == \A i \in 1..Len(registry) : Overlap(registry[i].aid, req) = 0

\* C17: when no agent matches the required capabilities, the envelope is
\* routed to the fallback agent; if the fallback agent is unavailable the
\* envelope is not dispatched to any inbox and it carries a REJECTED-equivalent
\* status (FAILED, last event REJECT).
C17_NoMatchFallbackOrRejected ==
    \A m \in 1..mDelivered :
        (/\ toMatch[m].valid
         /\ toMatch[m].assigned_agent = None
         /\ NoMatch(toMatch[m].required_capabilities)) =>
            IF FallbackAvailable
            THEN /\ \A e \in InboxEntries(m) : e[1] = FALLBACK_AGENT
                 /\ PublishedBoth(m) => InboxEntries(m) # {}
            ELSE /\ InboxEntries(m) = {}
                 /\ \A i \in AuditEntries(m) :
                       /\ dispatch[i].env.status = "failed"
                       /\ dispatch[i].env.last_event = "reject"

\* s is a prefix of t.
IsPrefix(s, t) == Len(s) <= Len(t) /\ \A i \in 1..Len(s) : s[i] = t[i]

\* C18: every status transition of an envelope appends one {event, timestamp,
\* actor} entry to header.history, and no component (matcher, planner) ever
\* modifies or removes an entry already in history.
C18_HistoryAppendOnly ==
    [][/\ (ppc \notin {"idle", "off"}) =>
            /\ IsPrefix(parent.history, parent'.history)
            /\ parent'.status # parent.status =>
                  Len(parent'.history) = Len(parent.history) + 1
       /\ \A i \in 1..Len(dispatch') :
            LET sent == dispatch'[i].env
                got == toMatch[dispatch'[i].src] IN
            /\ IsPrefix(got.history, sent.history)
            /\ sent.status # got.status =>
                  Len(sent.history) = Len(got.history) + 1]_vars

\* ---- C19 ----
ResultIds(result) == {result[i].agent_id : i \in 1..Len(result)}
RegisteredEntry(reg, id) == CHOOSE e \in Elems(reg) : e.agent_id = id
\* The highest score any capability of the agent gets for the query.
HighestScore(capabilities, text, tags) ==
    IF capabilities = <<>> THEN 0
    ELSE CHOOSE m \in {_score_capability_match(c, text, tags) :
                           c \in Elems(capabilities)} :
            \A c \in Elems(capabilities) :
                _score_capability_match(c, text, tags) <= m

\* C19: every call of match_capability(query, min_score) returns its entries
\* in descending order of score, every returned entry is a registered agent
\* carrying its highest score, which is at least min_score, and every
\* registered agent whose highest score is at least min_score is returned.
C19_SortedFilteredComplete ==
    [][matched' # matched =>
        LET r == matched'.result
            reg == in_memory_registry
            Score(id) == HighestScore(RegisteredEntry(reg, id).capabilities,
                                      matched'.text, matched'.tags)
            Registered == {reg[i].agent_id : i \in 1..Len(reg)}
        IN /\ \A i \in 1..Len(r), j \in 1..Len(r) :
                  i < j => r[i].score >= r[j].score
           /\ \A i \in 1..Len(r) :
                  /\ r[i].agent_id \in Registered
                  /\ r[i].score = Score(r[i].agent_id)
                  /\ r[i].score >= matched'.min_score
           /\ \A i \in 1..Len(r), j \in 1..Len(r) :
                  i # j => r[i].agent_id # r[j].agent_id
           /\ \A id \in Registered :
                  Score(id) >= matched'.min_score => id \in ResultIds(r)]_vars

\* A call answered with two agents, the later registered one ranked first
\* and the last one exactly at the threshold, while a third score is absent.
C19_Witness ==
    /\ matched.called
    /\ Len(in_memory_registry) = 2
    /\ Len(matched.result) = 2
    /\ matched.result[1].agent_id = in_memory_registry[2].agent_id
    /\ matched.result[1].score > matched.result[2].score
    /\ matched.result[2].score = matched.min_score
    /\ matched.result = match_capability_result(in_memory_registry,
                            matched.text, matched.tags, matched.min_score)

\* ---- C20 ----
\* The score match_capability reports for the agent (0 when it has none).
ScoreIn(reg, id, text, tags) ==
    LET r == match_capability_result(reg, text, tags, 0)
    IN IF id \in ResultIds(r)
       THEN (CHOOSE e \in Elems(r) : e.agent_id = id).score
       ELSE 0

\* The step re-registers the agent with its previous capabilities plus one
\* capability whose name is the text of the query.
ReRegisteredWithNamed(id, text) ==
    /\ in_memory_registry' # in_memory_registry
    /\ \E i \in 1..Len(in_memory_registry) :
        /\ in_memory_registry[i].agent_id = id
        /\ Len(in_memory_registry') = Len(in_memory_registry)
        /\ \E c \in NamedLikeQuery :
            /\ c.name = text
            /\ in_memory_registry'[i].capabilities =
                   Append(in_memory_registry[i].capabilities, c)

\* C20: re-registering an agent with its previous capabilities plus one
\* capability whose name exactly matches the query never lowers the agent's
\* score for that query, and the new score is 1.0.
C20_ExactNameMonotone ==
    [][\A id \in AgentIds, text \in QueryTexts, tags \in QueryTags :
        ReRegisteredWithNamed(id, text) =>
            /\ ScoreIn(in_memory_registry', id, text, tags)
                   >= ScoreIn(in_memory_registry, id, text, tags)
            /\ ScoreIn(in_memory_registry', id, text, tags) = 100]_vars

\* ---- C21 ----
\* C21: in every answer of match_capability, of two agents with the same
\* score the one registered most recently is ranked first.
C21_TieBreakByRecency ==
    [][matched' # matched =>
        LET r == matched'.result
            Updated(id) == RegisteredEntry(in_memory_registry, id).last_updated
        IN \A i \in 1..Len(r), j \in 1..Len(r) :
              (i < j /\ r[i].score = r[j].score)
                  => Updated(r[i].agent_id) >= Updated(r[j].agent_id)]_vars

\* ---- C22 ----
DependencyIds(t) == {dep.task_id : dep \in Elems(t.dependencies)}
SameGroup(groups, a, b) ==
    \E i \in 1..Len(groups) : a \in groups[i] /\ b \in groups[i]

\* C22: two tasks of the plan are in the same parallel group if and only if
\* both are marked parallelizable and their dependency-id sets are equal; so a
\* task with parallelizable = false shares a group with no other task.
C22_ParallelGrouping ==
    \A i \in 1..Len(plan), j \in 1..Len(plan) :
        i # j =>
            (SameGroup(parallel_groups, plan[i].id, plan[j].id)
                <=> (/\ plan[i].parallelizable
                     /\ plan[j].parallelizable
                     /\ DependencyIds(plan[i]) = DependencyIds(plan[j])))

\* ---- C23 ----
\* The tasks are A, B, C with durations 1, 2, 3, in any list order, B
\* blocking on A and C blocking on B, and nothing else.
IsLinearChain(tasks) ==
    /\ {t.id : t \in Elems(tasks)} = {"A", "B", "C"}
    /\ Len(tasks) = 3
    /\ \A t \in Elems(tasks) :
        /\ t.id = "A" => t.dependencies = <<>> /\ t.expected_duration = 1
        /\ t.id = "B" => /\ t.dependencies = <<Dependency("A", TRUE)>>
                         /\ t.expected_duration = 2
        /\ t.id = "C" => /\ t.dependencies = <<Dependency("B", TRUE)>>
                         /\ t.expected_duration = 3

RECURSIVE PathDuration(_, _)
PathDuration(tasks, path) ==
    IF path = <<>> THEN 0
    ELSE TaskById(tasks, Head(path)).expected_duration
            + PathDuration(tasks, Tail(path))

\* C23: for the linear chain A -> B -> C with durations 1, 2, 3 the critical
\* path computed for the plan is [A, B, C], and the durations along it add up
\* to 6.
C23_LinearChainCriticalPath ==
    IsLinearChain(plan) =>
        /\ critical_path = <<"A", "B", "C">>
        /\ PathDuration(plan, critical_path) = 6

\* The chain was planned with its tasks listed last-to-first.
C23_Witness ==
    /\ IsLinearChain(plan)
    /\ plan[1].id = "C" /\ plan[3].id = "A"
    /\ ppc = "emit"
    /\ critical_path = <<"A", "B", "C">>

\* ---- C24 ----
\* C24: when handle_task has finished for a plan with tasks, task.to_match
\* holds exactly one child envelope per task of the plan, each with last
\* event PLAN and no assigned agent.
C24_OneChildPerTask ==
    (ppc = "done" /\ plan # <<>>) =>
        /\ Len(toMatch) = Len(plan)
        /\ \A i \in 1..Len(toMatch) :
            /\ toMatch[i].valid
            /\ toMatch[i].last_event = "plan"
            /\ toMatch[i].assigned_agent = None


\* The order of the effort levels.
Rank(level) == IF level = "low" THEN 1 ELSE IF level = "medium" THEN 2 ELSE 3

\* C25: within one classification call the final effort is never lower than
\* the base effort, and none of the five adjustment steps (event, intent,
\* confidence, deadline pressure, guardrail) lowers the running level.
C25_EffortMonotone ==
    estimate.called =>
        /\ Rank(estimate.final_effort) >= Rank(estimate.base_effort)
        /\ Rank(estimate.levels[1]) >= Rank(estimate.base_effort)
        /\ \A i \in 1..4 :
            Rank(estimate.levels[i + 1]) >= Rank(estimate.levels[i])
\* A call whose base effort is medium and whose intent step raised it to high.
C25_Witness ==
    /\ estimate.called
    /\ estimate.base_effort = "medium"
    /\ estimate.levels = <<"medium", "high", "high", "high", "high">>

\* C26: content with at least one "complex" keyword is never classified low,
\* whatever the other inputs and whatever tuned weights and thresholds.
C26_ComplexNeverLow ==
    (estimate.called /\ estimate.complex_count > 0) =>
        estimate.final_effort # "low"
\* A call on content with a complex keyword that stayed low through the four
\* adjustments and that the guardrail raised to medium.
C26_Witness ==
    /\ estimate.called
    /\ estimate.complex_count > 0
    /\ estimate.base_effort = "low"
    /\ estimate.levels = <<"low", "low", "low", "low", "medium">>


\* C27: after any sequence of record_task_outcome calls the number of stored
\* outcomes never exceeds the retention limit HISTORY_LIMIT.
C27_HistoryBounded == outcome_history <= HISTORY_LIMIT

C29_DisabledTuningChangesNothing ==
    [][~AUTO_TUNING_ENABLED =>
          UNCHANGED <<KEYWORD_WEIGHTS, WORD_COUNT_THRESHOLDS>>]_vars
\* Auto-tuning is disabled and analysis passes have produced recommendations.
C29_Witness ==
    /\ ~AUTO_TUNING_ENABLED
    /\ tunings > 1
    /\ outcome_history >= 100


\* The lifecycle state of a worker, read off the position of its lifespan:
\* before startup, registering, operational (the lifespan has yielded),
\* running its shutdown sequence, stopped.
WorkerState ==
    IF lpc = "init" THEN "UNREGISTERED"
    ELSE IF lpc = "register" THEN "REGISTERING"
    ELSE IF lpc = "running" THEN "ACTIVE"
    ELSE IF lpc = "stopped" THEN "STOPPED"
    ELSE "DRAINING"
StateRank(state) ==
    IF state = "UNREGISTERED" THEN 1
    ELSE IF state = "REGISTERING" THEN 2
    ELSE IF state = "ACTIVE" THEN 3
    ELSE IF state = "DRAINING" THEN 4
    ELSE 5
\* The workers that consume an inbox stream.
InboxWorkers == {ENHANCED, REGISTERABLE}

\* A step of an inbox worker keeps its state or moves it to the next one.
NextStateOnly ==
    entity \in InboxWorkers =>
        StateRank(WorkerState') \in
            {StateRank(WorkerState), StateRank(WorkerState) + 1}
\* A step of an inbox worker that takes a message is taken while ACTIVE with
\* the registration accepted.
ConsumesWhileActive ==
    (entity \in InboxWorkers /\ consumed' # consumed) =>
        (WorkerState = "ACTIVE" /\ registered)
WorkerStep == NextStateOnly /\ ConsumesWhileActive

\* C30: a worker moves only along UNREGISTERED -> REGISTERING -> ACTIVE ->
\* DRAINING -> STOPPED, one state at a time and never back, and it takes an
\* inbox message only while ACTIVE with its registration accepted.
C30_WorkerLifecycle == [][WorkerStep]_vars


\* A heartbeat request of whichever worker is running.
HeartbeatSend == _heartbeat_loop \/ send_heartbeat \/ matcher_send_heartbeat

LoopGoesOn ==
    /\ wpc # "dead" => wpc' # "dead"
    /\ mpc # "dead" => mpc' # "dead"

\* C32: no failure while processing one message and no failure of a log read
\* terminates a consumption loop, of the agent runtime or of the matcher.
C32_LoopSurvives == [][LoopGoesOn]_vars


\* The best of the scores of the agent's skills against the query, normalized
\* as the overall score is.
BestSkillScore ==
    Normalized(Accumulate_Best([i \in 1..Len(capability_score.skills) |->
                                    SkillScore(capability_score.skills[i])]),
               capability_score.query_words)

\* C33: an agent's overall match score is the maximum of the scores of its
\* declared capabilities against the query, not their sum.
C33_ScoreIsMaximum ==
    capability_score.called => capability_score.score = BestSkillScore

\* A blocking dependency leads from the task back to itself.
RECURSIVE ReachableIn(_, _, _)
ReachableIn(tasks, ids, n) ==
    IF n = 0 THEN ids
    ELSE ReachableIn(tasks,
             ids \cup UNION {BlockingIds(TaskById(tasks, id)) : id \in ids},
             n - 1)
OnCycle(tasks, t) ==
    t.id \in ReachableIn(tasks, BlockingIds(t), Len(tasks))
Cyclic(tasks) == \E t \in Elems(tasks) : OnCycle(tasks, t)

\* C34: cycle protection: the critical-path computation terminates on a task
\* list whose blocking dependencies contain a cycle, a self-dependency
\* included; the planner never stays inside calculate_critical_path.
C34_CriticalPathTerminates == ppc # "hung"

\* longestPathDuration(t) of an acyclic task list: the duration of the task
\* plus the largest longestPathDuration of its blocking dependencies, 0
\* without one.
RECURSIVE longestPathDuration(_, _)
longestPathDuration(tasks, id) ==
    LET t == TaskById(tasks, id)
        through == {longestPathDuration(tasks, d) : d \in BlockingIds(t)}
    IN t.expected_duration +
       (IF through = {} THEN 0
        ELSE CHOOSE m \in through : \A n \in through : n <= m)
\* The path is a chain of blocking dependencies that starts at a task
\* without one and follows, at every step, a dependency of maximal
\* longestPathDuration.
MaximalChain(tasks, path) ==
    /\ path # <<>>
    /\ BlockingIds(TaskById(tasks, path[1])) = {}
    /\ \A i \in 2..Len(path) :
          /\ path[i - 1] \in BlockingIds(TaskById(tasks, path[i]))
          /\ \A d \in BlockingIds(TaskById(tasks, path[i])) :
                longestPathDuration(tasks, d)
                    <= longestPathDuration(tasks, path[i - 1])

\* C35: for an acyclic task list in any list order, the critical path the
\* planner computed is the dependency chain that ends at the task with the
\* globally maximal longestPathDuration.
C35_CriticalPathIsLongest ==
    (ppc = "emit" /\ plan # <<>> /\ ~Cyclic(plan)) =>
        /\ MaximalChain(plan, critical_path)
        /\ \A t \in Elems(plan) :
              longestPathDuration(plan, t.id)
                  <= longestPathDuration(plan,
                                         critical_path[Len(critical_path)])

\* The sample size below which _analyze_outcomes returns at once.
MinimumSamples ==
    IF factory = TASK_FACTORY THEN MIN_SAMPLES_FOR_TUNING ELSE 50

\* C36: once the outcome history has reached the minimum sample size,
\* recording an outcome runs an analysis pass, and no analysis pass runs
\* while the history is below that size.
C36_AnalysisFromMinimumSamples ==
    /\ outcome_history >= MinimumSamples => analysed
    /\ analysed => outcome_history >= MinimumSamples

\* |a - b|
Distance(a, b) == IF a > b THEN a - b ELSE b - a
\* The largest step one pass suggests for a word-count threshold: 10 words
\* (task_factory.py, the high threshold), 5 words in factories.py.
ThresholdIncrement == IF factory = TASK_FACTORY THEN 10 ELSE 5
WeightsCapped ==
    \A c \in Categories :
        Distance(KEYWORD_WEIGHTS'[c], KEYWORD_WEIGHTS[c]) * 10
            <= KEYWORD_WEIGHTS[c] * 3
ThresholdsStepped ==
    /\ Distance(WORD_COUNT_THRESHOLDS'.medium, WORD_COUNT_THRESHOLDS.medium)
           <= ThresholdIncrement
    /\ Distance(WORD_COUNT_THRESHOLDS'.high, WORD_COUNT_THRESHOLDS.high)
           <= ThresholdIncrement
CappedChange == WeightsCapped /\ ThresholdsStepped

\* C37: in one tuning cycle no category weight changes by more than 30% of
\* its previous value, and each word-count threshold changes by at most one
\* bounded increment.
C37_CappedChangePerCycle == [][CappedChange]_vars

\* C38: after any sequence of tuning cycles the base medium word-count
\* threshold is less than or equal to the base high word-count threshold.
C38_MediumBelowHigh ==
    WORD_COUNT_THRESHOLDS.medium <= WORD_COUNT_THRESHOLDS.high

\* The DualModeAgent consumer is between the read of message m and its xack.
DualProcessing(m) ==
    wCur = m /\ wpc \in {"validate", "handle", "publish", "finally_ack"}

\* C39: every message the DualModeAgent consumer reads from its inbox is
\* acknowledged exactly once, and only after the handler call and the publish
\* attempt for it have finished, whatever the outcome: success, handler
\* exception, publish failure or malformed payload.
C39_DualAckedOnceAfterHandling ==
    runtime = DUAL =>
        \A m \in MsgIds :
            /\ ackCalls[m] <= 1
            /\ ackCalls[m] = 1 =>
                  /\ m <= delivered
                  /\ ~DualProcessing(m)
                  /\ agentInbox[m].valid =>
                        /\ handleCalls[m] = 1
                        /\ \/ m \in handlerRaised
                           \/ m \in pubFailed
                           \/ Published(m)
            /\ RuntimeDone(m) => ackCalls[m] = 1

\* A malformed message and a message whose handler raised or whose result
\* could not be published have both been acknowledged.
C39_Witness ==
    /\ runtime = DUAL
    /\ \E m \in MsgIds :
          m <= Len(agentInbox) /\ ~agentInbox[m].valid /\ ackCalls[m] = 1
    /\ \E m \in handlerRaised \cup pubFailed : ackCalls[m] = 1

\* C40: the planner returns the parent envelope COMPLETED only if every child
\* envelope of the plan was published to task.to_match; when a step of
\* planning or publishing raises, the parent is returned FAILED with last
\* event FAIL and the error in its payload.
C40_PlannerOutcome ==
    ppc = "done" =>
        /\ parent.status \in {"completed", "failed"}
        /\ parent.status = "completed" =>
              /\ parent.last_event = "complete"
              /\ ~parent.error
              /\ Len(toMatch) = Len(plan)
        /\ parent.status = "failed" =>
              /\ parent.last_event = "fail"
              /\ parent.error

\* The emission of the children raised and the parent came back FAILED.
C40_Witness ==
    /\ ppc = "done"
    /\ plan # <<>>
    /\ Len(toMatch) < Len(plan)
    /\ parent.status = "failed"
    /\ parent.error

====
